---- MODULE Spec2Model ----
(***************************************************************************)
(* A model of the shatter runtime (ChangeCaps/shatter): reference-counted  *)
(* identities and the resource store (src/src/id.rs), the descriptor cache *)
(* and its get-or-create resolution (src/src/instance.rs), the Buffer      *)
(* synchronisation protocol (src/src/buffer.rs) and the dispatch           *)
(* orchestration (src/src/compute.rs), with the binding-set code generated *)
(* by shatter-macro (src/shatter-macro/src/shatter.rs).                    *)
(*                                                                         *)
(* The specifications share the variables:                                 *)
(*   Spec      one caller resolving bind-group-layout descriptors, cloning *)
(*             and dropping identities and calling clean();                *)
(*   SpecRace  two threads inside get_bind_group_layout, one shared-memory *)
(*             access per step;                                            *)
(*   SpecBuf   one Buffer<T> (T with a trailing array), its operations and *)
(*             dispatches in both encoder modes, download step by step;    *)
(*   SpecGrow  the Buffer growing over several reallocations, and          *)
(*             dispatches of a shader without bindings;                    *)
(*   SpecTex   one Texture2d, its operations and dispatches;               *)
(*   SpecInit  threads calling Instance::global() and Instance::init();    *)
(*   SpecLock  threads taking the locks of this layer, one at a time;      *)
(*   SpecVec   push and pop on a trailing array, in machine words;         *)
(*   SpecIdx   the texel addresses of a 2D texture's shadow.               *)
(***************************************************************************)
EXTENDS Integers, Sequences, FiniteSets, Bags, TLC

VARIABLES
    \* ---- Instance: descriptor caches and resource stores (instance.rs:20-38)
    bind_group_layout_descriptors, \* DashMap<BindGroupLayoutDescriptor, BindGroupLayoutId>
    bind_group_layouts,            \* IdMap<wgpu::BindGroupLayout>: [map, next_id]
    bind_group_descriptors,        \* DashMap<BindGroupDescriptor, BindGroupId>
    bind_groups,                   \* IdMap<wgpu::BindGroup>
    pipeline_layout_descriptors,   \* DashMap<PipelineLayoutDescriptor, PipelineLayoutId>
    pipeline_layouts,              \* IdMap<wgpu::PipelineLayout>
    shader_module_sources,         \* DashMap<Cow<str>, ShaderModuleId>
    shader_modules,                \* IdMap<wgpu::ShaderModule>
    compute_pipeline_descriptors,  \* DashMap<ComputePipelineDescriptor, ComputePipelineId>
    compute_pipelines,             \* IdMap<wgpu::ComputePipeline>
    buffers,                       \* IdMap<wgpu::Buffer>
    arcs,                          \* the heap of Arc<AtomicU32> counters of all Ids
    created,                       \* device.create_bind_group_layout calls so far
    \* ---- the callers of Spec and SpecRace
    held,                          \* bag of the Id handles the caller holds
    prev, last,                    \* the two most recent operations of the caller
    thr,                           \* SpecRace: each thread's position and locals
    \* ---- one Buffer<T> (buffer.rs:45-52) and the device side it talks to
    value,                         \* CPU shadow: the cells T::size(state) covers
    state,                         \* T::State = (length, capacity)
    id,                            \* Mutex<BufferId>: the current device identity
    buffer_size,                   \* AtomicU64: cached device buffer size, bytes
    needs_download,                \* AtomicBool
    encoder,                       \* passes recorded in the caller's encoder
    staging,                       \* the staging buffer of a download
    pc,                            \* position of the running operation
    running,                       \* the Buffer operation or dispatch in progress
    obs,                           \* the operation last called, when obs records it
    since,                         \* write dispatches recorded since the last
                                   \* completed download, per encoder mode
    shader,                        \* the ComputeShader the program dispatches
    \* ---- one Texture2d (texture.rs:341-351) and the texture store
    texture,                       \* [storage, id, needs_upload, needs_download]
    textures,                      \* IdMap<wgpu::Texture>
    \* ---- the process-wide handle (instance.rs:12) and the threads asking for it
    GLOBAL_INSTANCE,               \* OnceCell<Instance>
    calls,                         \* SpecInit: each thread's call of global()/init()
    initialized,                   \* completed runs of Instance::initialize
    \* ---- SpecLock: the locks of this layer and the threads taking them
    lk,                            \* each thread's operation and the guards it holds
    \* ---- SpecVec: one trailing-array payload T (shatter.rs:668-814)
    vec,                           \* its layout state, its allocation, its calls
    \* ---- SpecIdx: one TextureStorageD2 (texture.rs:167-189)
    image                          \* its extent, its allocation, the bytes stored

bglVars == <<bind_group_layout_descriptors, bind_group_layouts, created>>
instVars == <<bind_group_descriptors, bind_groups, pipeline_layout_descriptors,
              pipeline_layouts, shader_module_sources, shader_modules,
              compute_pipeline_descriptors, compute_pipelines>>
callerVars == <<held, prev, last, shader>>
raceVars == <<thr>>
bufVars == <<value, state, id, buffer_size, needs_download, buffers, encoder,
             staging, pc, running, obs, since>>
texVars == <<texture, textures>>
onceVars == <<GLOBAL_INSTANCE, calls, initialized>>
lockVars == <<lk>>
pureVars == <<vec, image>>
extVars == <<texVars, onceVars, lockVars, pureVars>>
vars == <<bglVars, instVars, callerVars, raceVars, bufVars, arcs, extVars>>

(***************************************************************************)
(* Bounds of the model.                                                    *)
(***************************************************************************)
MaxHeld == 2        \* Id handles the caller holds at once
MaxCalls == 2       \* get_bind_group_layout calls per thread in SpecRace

(***************************************************************************)
(* Id<T> (id.rs:28-52).  A handle is [val, arc]: the integer and the index *)
(* of its shared AtomicU32 in arcs.  A counter is kept as the two's        *)
(* complement reading of the u32, so that fetch_sub on 0 (which wraps to   *)
(* 2^32-1) is -1 here; the unsigned test `> 0` is then `# 0`.              *)
(***************************************************************************)
NewArc(heap) == Append(heap, 0)

ArcOfNew(heap) == Len(heap) + 1

ref_count(heap, h) == heap[h.arc]

RefCountPositive(c) == c # 0

\* Id::clone: fetch_add(1) on the shared counter, same value, same Arc.
IdClone(heap, h) == [heap EXCEPT ![h.arc] = @ + 1]

\* Drop for Id: fetch_sub(1) on the shared counter.
IdDrop(heap, h) == [heap EXCEPT ![h.arc] = @ - 1]

\* Id::clone_untracked: same value, a fresh counter starting at 0.
clone_untracked(heap, h) == [val |-> h.val, arc |-> ArcOfNew(heap)]

(***************************************************************************)
(* IdMap<T> (id.rs:86-108): [map, next_id]; map takes an Id value to       *)
(* [arc, obj], the counter of the key stored in the DashMap and the device *)
(* object.  Hash and Eq of Id look at the value only (id.rs:60-84).        *)
(***************************************************************************)
IdMapNew == [map |-> <<>>, next_id |-> 0]

\* IdMap::next_id: fetch_add on next_id, a fresh Arc counter at 0.
next_id(m, heap) == [val |-> m.next_id, arc |-> ArcOfNew(heap)]

\* DashMap::get through Deref for IdMap.
IdMapGet(m, v) == v \in DOMAIN m.map

IdMapInsert(m, key, object) ==
    [m EXCEPT !.map = [x \in DOMAIN m.map \cup {key.val} |->
                          IF x = key.val THEN [arc |-> key.arc, obj |-> object]
                          ELSE m.map[x]]]

RetainedAll(m, heap) == DOMAIN m.map

\* IdMap::clean: retain the entries whose key has ref_count() > 0.
Retained(m, heap) == {v \in DOMAIN m.map : RefCountPositive(heap[m.map[v].arc])}

cleanMap(m, heap) == [m EXCEPT !.map = [v \in Retained(m, heap) |-> m.map[v]]]

\* The keys retain() removes are dropped: one fetch_sub each.
RECURSIVE DropAll(_, _)
DropAll(heap, hs) ==
    IF hs = {} THEN heap
    ELSE LET h == CHOOSE x \in hs : TRUE
         IN DropAll(IdDrop(heap, h), hs \ {h})

cleanHeap(m, heap) ==
    DropAll(heap, {[val |-> v, arc |-> m.map[v].arc] :
                      v \in DOMAIN m.map \ Retained(m, heap)})

(***************************************************************************)
(* Bind-group-layout descriptors (bind_group.rs:48-51): a Vec of entries,  *)
(* with derived Eq and Hash, so two descriptors are equal iff their entry  *)
(* sequences are.  An entry is (binding, ty).                              *)
(***************************************************************************)
Entries == {[binding |-> 0, ty |-> "storage"], [binding |-> 1, ty |-> "uniform"]}

\* The entry lists of the model: what a caller can hand to the runtime and the
\* orders in which the generator can enumerate a module's globals.  One list
\* of a single entry, and both orders of the two entries together.
Descs == {<<e>> : e \in {x \in Entries : x.binding = 0}} \cup
         {s \in {<<e, f>> : e \in Entries, f \in Entries} : s[1] # s[2]}

Range(s) == {s[i] : i \in DOMAIN s}

IsPermutation(s, t) == Len(s) = Len(t) /\ Range(s) = Range(t)

\* gen_entry_point_bindings (shatter.rs:321-341): the generator collects a
\* group's entries from a HashMap and sorts them by binding index.
RECURSIVE InsertByBinding(_, _)
InsertByBinding(e, s) ==
    IF s = <<>> THEN <<e>>
    ELSE IF e.binding <= Head(s).binding THEN <<e>> \o s
    ELSE <<Head(s)>> \o InsertByBinding(e, Tail(s))

Unsorted(s) == s

RECURSIVE SortByBinding(_)
SortByBinding(s) ==
    IF s = <<>> THEN <<>> ELSE InsertByBinding(Head(s), SortByBinding(Tail(s)))

GenLayoutDescriptor(order) == SortByBinding(order)

(***************************************************************************)
(* Instance::get_bind_group_layout (instance.rs:95-117), one operator per  *)
(* access to shared memory.  C is [descs, store, heap, made].            *)
(***************************************************************************)
CacheNeverHit(C, desc) == FALSE

\* line 99: self.bind_group_layout_descriptors.get(&desc)
CacheHit(C, desc) == desc \in DOMAIN C.descs

\* line 100: return id.clone() of the cached Id
HitClone(C, desc) ==
    [C |-> [C EXCEPT !.heap = IdClone(C.heap, C.descs[desc])],
     id |-> C.descs[desc]]

\* line 108: device.create_bind_group_layout
CreateLayout(C) == [C EXCEPT !.made = @ + 1]

\* next_id() that reads the counter and leaves it as it is.
AllocIdNoAdd(C) ==
    [C |-> [C EXCEPT !.heap = NewArc(C.heap)], id |-> next_id(C.store, C.heap)]

\* line 110: self.bind_group_layouts.next_id()
AllocId(C) ==
    [C |-> [C EXCEPT !.store.next_id = @ + 1, !.heap = NewArc(C.heap)],
     id |-> next_id(C.store, C.heap)]

\* lines 112-113: descriptors.insert(desc, id.clone_untracked()); a value
\* the insert replaces is dropped.
CacheInsert(C, desc, h) ==
    LET u == clone_untracked(C.heap, h)
        heap1 == NewArc(C.heap)
        heap2 == IF desc \in DOMAIN C.descs
                 THEN IdDrop(heap1, C.descs[desc]) ELSE heap1
    IN [C EXCEPT !.heap = heap2,
                 !.descs = [d \in DOMAIN C.descs \cup {desc} |->
                               IF d = desc THEN u ELSE C.descs[d]]]

\* line 114: bind_group_layouts.insert(id.clone(), bind_group)
StoreInsert(C, desc, h) ==
    [C EXCEPT !.heap = IdClone(C.heap, h),
              !.store = IdMapInsert(C.store, h, desc)]

\* The whole call, run by one thread without interference.
get_bind_group_layout(C, desc) ==
    IF CacheHit(C, desc)
    THEN LET r == HitClone(C, desc) IN [C |-> r.C, id |-> r.id, hit |-> TRUE]
    ELSE LET a == AllocId(CreateLayout(C))
             C2 == StoreInsert(CacheInsert(a.C, desc, a.id), desc, a.id)
         IN [C |-> C2, id |-> a.id, hit |-> FALSE]

(***************************************************************************)
(* The buffer payload T: a struct with a trailing array, as the macro      *)
(* generates it (shatter.rs:668-814).  T::State is (length, capacity).     *)
(* The model's T has no sized head and 4-byte items, like the Particles    *)
(* struct of examples/wgsl.rs with a one-word item.  Memory is counted in  *)
(* cells: one cell for the head when it has a size, one cell per item.     *)
(***************************************************************************)
HeadSize == 0         \* size_of::<#name_sized>()

ItemSize == 4         \* size_of::<#buffer_ty>()

MinBufferSize == 4    \* T::size(&state).max(4)

Vals == {0, 1}        \* the values a cell can hold

MaxLen == 2           \* items pushed at most

MaxPending == 1       \* passes recorded in the caller's encoder at most

HeadCells == IF HeadSize = 0 THEN 0 ELSE 1

Max(a, b) == IF a < b THEN b ELSE a

Last(s) == s[Len(s)]

Front(s) == SubSeq(s, 1, Len(s) - 1)

Zeros(n) == [i \in 1..n |-> 0]

\* BufferData::init: capacity !0 for a zero-sized item, 0 otherwise.
init == <<0, IF ItemSize = 0 THEN -1 ELSE 0>>

\* BufferData::size
size(st) == HeadSize + st[1] * ItemSize

\* The cells the first `bytes` bytes of T cover.
Cells(bytes) ==
    IF bytes < HeadSize THEN 0 ELSE HeadCells + (bytes - HeadSize) \div ItemSize

\* BufferVec::len
len(st) == st[1]

\* grow that makes room for one more item only.
GrowByOne(st) == <<st[1], st[2] + 1>>

\* BufferVec::grow: capacity 0 becomes 1, any other capacity doubles.
grow(st) == IF st[2] = 0 THEN <<st[1], 1>> ELSE <<st[1], 2 * st[2]>>

\* BufferVec::push: grow when full, write the item at index length.
push(W, item) ==
    LET st == IF W.state[1] = W.state[2] THEN grow(W.state) ELSE W.state
    IN [W EXCEPT !.state = <<st[1] + 1, st[2]>>, !.value = Append(@, item)]

\* BufferVec::pop: None on length 0, else the item at the new length.
pop(W) ==
    IF W.state[1] = 0 THEN [W |-> W, some |-> FALSE, item |-> <<>>]
    ELSE [W |-> [W EXCEPT !.state[1] = @ - 1, !.value = Front(@)],
          some |-> TRUE, item |-> <<Last(W.value)>>]

(***************************************************************************)
(* Buffer<T> (buffer.rs).  W is the record of everything a Buffer          *)
(* operation or a dispatch can touch.  An operation is an operator from W  *)
(* to the sequence of states it goes through: the last one is the state on *)
(* return, the ones before it are the states inside Buffer::download, and  *)
(* pc = "panic" ends the program.                                          *)
(***************************************************************************)
Then(t, F(_)) == IF Last(t).pc = "panic" THEN t ELSE Front(t) \o F(Last(t))

\* device.create_buffer: wgpu buffers start zeroed.
NewBuffer(bytes) == [size |-> bytes, data |-> Zeros(Cells(bytes))]

\* buffers.get(&id): the device buffer the current identity names.
Device(W) == W.buffers.map[W.id.val].obj

SetDeviceData(W, v, d) == [W EXCEPT !.buffers.map[v].obj.data = d]

NoId == [val |-> -1, arc |-> 0]

NoWrites == [owned |-> FALSE, external |-> FALSE]

\* Buffer::new that asks the device for size bytes, without the max(4).
BufferNewNoMin(W) ==
    LET sz == size(init)
        h == next_id(W.buffers, W.heap)
    IN [W EXCEPT !.value = Zeros(Cells(size(init))),
                 !.state = init,
                 !.heap = IdClone(NewArc(@), h),
                 !.buffers = IdMapInsert([@ EXCEPT !.next_id = @ + 1], h,
                                         NewBuffer(sz)),
                 !.id = h,
                 !.buffer_size = sz,
                 !.needs_download = FALSE]

\* Buffer::new (buffer.rs:105-136)
BufferNew(W) ==
    LET sz == Max(size(init), MinBufferSize)
        h == next_id(W.buffers, W.heap)
    IN [W EXCEPT !.value = Zeros(Cells(size(init))),
                 !.state = init,
                 !.heap = IdClone(NewArc(@), h),
                 !.buffers = IdMapInsert([@ EXCEPT !.next_id = @ + 1], h,
                                         NewBuffer(sz)),
                 !.id = h,
                 !.buffer_size = sz,
                 !.needs_download = FALSE]

\* Buffer::mark_needs_download (buffer.rs:173-176)
MarkNothing(W) == <<W>>

mark_needs_download(W) == <<[W EXCEPT !.needs_download = TRUE]>>

\* Buffer::download with the flag cleared after the copy into the shadow.
DownloadClearLast(W) ==
    IF ~W.needs_download THEN <<W>>
    ELSE IF size(W.state) = 0
         THEN <<[W EXCEPT !.needs_download = FALSE, !.since = NoWrites]>>
    ELSE LET S1 == [W EXCEPT !.pc = "dl_staging"]
             S2 == [S1 EXCEPT !.pc = "dl_submitted",
                       !.staging = SubSeq(Device(W).data, 1, Cells(size(W.state)))]
             S3 == [S2 EXCEPT !.pc = "dl_mapped"]
             S4 == [S3 EXCEPT !.pc = "dl_copied", !.value = S3.staging]
             S5 == [S4 EXCEPT !.pc = "idle", !.staging = <<>>,
                       !.needs_download = FALSE, !.since = NoWrites]
         IN <<S1, S2, S3, S4, S5>>

\* Buffer::download that tests the flag with a load and never clears it.
DownloadKeepFlag(W) ==
    IF ~W.needs_download \/ size(W.state) = 0 THEN <<W>>
    ELSE IF ~IdMapGet(W.buffers, W.id.val) \/ size(W.state) > Device(W).size
         THEN <<[W EXCEPT !.pc = "panic"]>>
    ELSE LET S1 == [W EXCEPT !.pc = "dl_staging"]
             S2 == [S1 EXCEPT !.pc = "dl_submitted",
                       !.staging = SubSeq(Device(W).data, 1, Cells(size(W.state)))]
             S3 == [S2 EXCEPT !.pc = "dl_mapped"]
             S4 == [S3 EXCEPT !.pc = "dl_copied", !.value = S3.staging]
             S5 == [S4 EXCEPT !.pc = "idle", !.staging = <<>>, !.since = NoWrites]
         IN <<S1, S2, S3, S4, S5>>

\* Buffer::download (buffer.rs:204-268) of a Buffer<T> for which T::size(state)
\* is sz bytes (buffer.rs:213).
\*   207      needs_download.swap(false): return if it was false
\*   215-219  size 0 returns, size below 4 panics
\*   224-229  the staging buffer                              "dl_staging"
\*   231-239  buffers.get(&id).unwrap(), copy_buffer_to_buffer and submit;
\*            a copy beyond the device buffer is a wgpu validation error,
\*            which panics                                    "dl_submitted"
\*   242-244  map_async, poll(Wait), block_on                 "dl_mapped"
\*   247-267  copy_nonoverlapping into the shadow             "dl_copied"
DownloadSized(W, sz) ==
    IF ~W.needs_download THEN <<W>>
    ELSE LET W1 == [W EXCEPT !.needs_download = FALSE]
         IN IF sz = 0 THEN <<[W1 EXCEPT !.since = NoWrites]>>
            ELSE IF sz < MinBufferSize THEN <<[W1 EXCEPT !.pc = "panic"]>>
            ELSE LET S1 == [W1 EXCEPT !.pc = "dl_staging"]
                 IN IF \/ ~IdMapGet(W.buffers, W.id.val)
                       \/ sz > Device(W).size
                    THEN <<S1, [S1 EXCEPT !.pc = "panic"]>>
                    ELSE LET S2 == [S1 EXCEPT !.pc = "dl_submitted",
                                       !.staging = SubSeq(Device(W).data, 1,
                                                          Cells(sz))]
                             S3 == [S2 EXCEPT !.pc = "dl_mapped"]
                             S4 == [S3 EXCEPT !.pc = "dl_copied",
                                              !.value = S3.staging]
                             S5 == [S4 EXCEPT !.pc = "idle", !.staging = <<>>,
                                              !.since = NoWrites]
                         IN <<S1, S2, S3, S4, S5>>

download(W) == DownloadSized(W, size(W.state))

\* The contents of the device buffer v are followed no further: nothing reads
\* a device buffer the Buffer no longer names.
Superseded(m, v) == [m EXCEPT !.map[v].obj.data = <<>>]

\* resize_buffer that fits the device buffer to the layout size: it
\* reallocates whenever the required size differs from the cached one.
ResizeToFit(W) ==
    LET sz == Max(size(W.state), MinBufferSize)
        h == next_id(W.buffers, W.heap)
        heap1 == IdClone(NewArc(W.heap), h)
        m1 == IdMapInsert([W.buffers EXCEPT !.next_id = @ + 1], h, NewBuffer(sz))
    IN IF W.buffer_size # sz
       THEN <<[W EXCEPT !.buffers = Superseded(cleanMap(m1, heap1), W.id.val),
                        !.heap = IdDrop(cleanHeap(m1, heap1), W.id),
                        !.id = h,
                        !.buffer_size = sz]>>
       ELSE <<W>>

\* Buffer::resize_buffer, lines 144-165: a larger device buffer under a new
\* identity; clean() runs while the Buffer still holds the old identity,
\* which is dropped by the assignment to self.id.
ResizeRest(W) ==
    LET sz == Max(size(W.state), MinBufferSize)
        h == next_id(W.buffers, W.heap)
        heap1 == IdClone(NewArc(W.heap), h)
        m1 == IdMapInsert([W.buffers EXCEPT !.next_id = @ + 1], h, NewBuffer(sz))
    IN IF W.buffer_size < sz
       THEN <<[W EXCEPT !.buffers = Superseded(cleanMap(m1, heap1), W.id.val),
                        !.heap = IdDrop(cleanHeap(m1, heap1), W.id),
                        !.id = h,
                        !.buffer_size = sz]>>
       ELSE <<W>>

\* Buffer::resize_buffer (buffer.rs:138-166)
resize_buffer(W) ==
    Then(IF W.needs_download THEN download(W) ELSE <<W>>, ResizeRest)

\* Buffer::upload, lines 189-201: queue.write_buffer of the first size bytes.
UploadWrite(W) ==
    IF size(W.state) = 0 THEN <<W>>
    ELSE IF ~IdMapGet(W.buffers, W.id.val) THEN <<[W EXCEPT !.pc = "panic"]>>
    ELSE <<SetDeviceData(W, W.id.val,
              W.value \o SubSeq(Device(W).data, Len(W.value) + 1,
                                Len(Device(W).data)))>>

UploadAlways(W) == Then(resize_buffer(W), UploadWrite)

\* Buffer::upload (buffer.rs:178-202)
upload(W) ==
    IF W.needs_download THEN <<W>> ELSE Then(resize_buffer(W), UploadWrite)

\* Deref::deref (buffer.rs:86-92): download, then the reference to the shadow.
deref(W) == download(W)

\* DerefMut::deref_mut (buffer.rs:96-102), and the caller's store through the
\* reference it returns.
deref_mut(W, i, v) ==
    Then(download(W),
         LAMBDA X : <<[X EXCEPT !.value = IF i \in DOMAIN X.value
                                          THEN [X.value EXCEPT ![i] = v]
                                          ELSE X.value]>>)

\* Drop for Buffer that also takes the entry of its identity out of the store.
BufferDropRemoving(W) ==
    <<[W EXCEPT !.value = <<>>, !.heap = IdDrop(@, W.id), !.pc = "dropped",
                !.buffers.map = [v \in DOMAIN @ \ {W.id.val} |-> @[v]]]>>

\* Drop for Buffer (buffer.rs:293-299) and the drop of the fields after it:
\* the shadow is freed, and the Id in self.id is dropped (id.rs:40-44).
\* Nothing is asked of the buffer store.
BufferDrop(W) ==
    <<[W EXCEPT !.value = <<>>, !.heap = IdDrop(@, W.id), !.pc = "dropped"]>>

(***************************************************************************)
(* The other get-or-create resolutions of the Instance, on W.  W.bgl,      *)
(* W.bg, W.pl, W.sm and W.cp are the five cache and store pairs, each      *)
(* [descs, store, made].  All five functions have the shape of             *)
(* get_bind_group_layout; a descriptor that holds Ids is dropped with them *)
(* on a hit and moved into the cache, which keeps them alive, on a miss.   *)
(* A miss first looks up the objects the descriptor names: unwrap() on a   *)
(* missing one panics.                                                     *)
(***************************************************************************)
Kind(W, k) ==
    [descs |-> W[k].descs, store |-> W[k].store, heap |-> W.heap, made |-> W[k].made]

PutKind(W, k, C) ==
    [W EXCEPT ![k] = [descs |-> C.descs, store |-> C.store, made |-> C.made],
              !.heap = C.heap]

RECURSIVE DropSeq(_, _)
DropSeq(heap, hs) ==
    IF hs = <<>> THEN heap ELSE DropSeq(IdDrop(heap, Head(hs)), Tail(hs))

GetOrCreateIn(W, k, key, moved, found) ==
    LET r == get_bind_group_layout(Kind(W, k), key)
        W1 == PutKind(W, k, r.C)
    IN IF r.hit
       THEN [W |-> [W1 EXCEPT !.heap = DropSeq(@, moved)], id |-> r.id, ok |-> TRUE]
       ELSE [W |-> W1, id |-> r.id, ok |-> found]

\* get_bind_group with a descriptor that names the layout alone.
GetBindGroupOfLayout(W, layout, buffer) ==
    GetOrCreateIn(W, "bg",
                  [layout |-> layout.val, entries |-> <<>>],
                  <<layout, buffer>>,
                  IdMapGet(W.bgl.store, layout.val) /\ IdMapGet(W.buffers, buffer.val))

\* Instance::get_bind_group (instance.rs:119-193) for one buffer at binding 0.
get_bind_group(W, layout, buffer) ==
    GetOrCreateIn(W, "bg",
                  [layout |-> layout.val,
                   entries |-> <<[binding |-> 0, buffer |-> buffer.val]>>],
                  <<layout, buffer>>,
                  IdMapGet(W.bgl.store, layout.val) /\ IdMapGet(W.buffers, buffer.val))

\* Instance::get_pipeline_layout (instance.rs:218-246) for one layout.
get_pipeline_layout(W, layout) ==
    GetOrCreateIn(W, "pl",
                  [bind_group_layouts |-> <<layout.val>>, push_constant_ranges |-> <<>>],
                  <<layout>>,
                  IdMapGet(W.bgl.store, layout.val))

\* Instance::get_shader_module (instance.rs:195-216)
get_shader_module(W, source) == GetOrCreateIn(W, "sm", source, <<>>, TRUE)

\* Instance::get_compute_pipeline (instance.rs:248-278)
get_compute_pipeline(W, layout, module, entry_point) ==
    GetOrCreateIn(W, "cp",
                  [layout |-> layout.val, module |-> module.val,
                   entry_point |-> entry_point],
                  <<layout, module>>,
                  IdMapGet(W.pl.store, layout.val) /\ IdMapGet(W.sm.store, module.val))

(***************************************************************************)
(* The generated binding set of a compute shader with one storage buffer   *)
(* at group 0, binding 0 (shatter.rs:179-434), and dispatch_multiple       *)
(* (compute.rs:82-160).  A shader is [name, use, layout]: its source and   *)
(* entry point, the GlobalUse of the buffer, and its layout entries.       *)
(***************************************************************************)
Shaders ==
    {[name |-> "reader", use |-> {"READ"},
      layout |-> <<[binding |-> 0, ty |-> "storage_ro"]>>],
     [name |-> "writer", use |-> {"WRITE"},
      layout |-> <<[binding |-> 0, ty |-> "storage"]>>],
     [name |-> "updater", use |-> {"READ", "WRITE"},
      layout |-> <<[binding |-> 0, ty |-> "storage"]>>]}

\* Bindings::prepare: Binding::prepare on every binding (buffer.rs:63-65).
BindingsPrepare(W) == resize_buffer(W)

\* Bindings::read that uploads nothing.
BindingsReadNothing(W, sh) == <<W>>

\* Bindings::read: Binding::read on the bindings the shader reads.
BindingsRead(W, sh) == IF "READ" \in sh.use THEN upload(W) ELSE <<W>>

\* Bindings::write that leaves the written bindings unmarked.
BindingsWriteNothing(W, sh) == <<W>>

\* Bindings::write that marks every binding, whatever the shader's use of it.
BindingsWriteAll(W, sh) == mark_needs_download(W)

\* Bindings::write: Binding::write on the bindings the shader writes.
BindingsWrite(W, sh) ==
    IF "WRITE" \in sh.use THEN mark_needs_download(W) ELSE <<W>>

\* compute.rs:83 calls bindings.upload() and compute.rs:156 calls
\* bindings.download(); the Bindings trait (bind_group.rs:20-30) and the
\* generated implementation have prepare, read and write instead.  upload is
\* taken to be prepare followed by read, download to be write.
BindingsUpload(W, sh) ==
    Then(BindingsPrepare(W), LAMBDA X : BindingsRead(X, sh))

BindingsDownload(W, sh) == BindingsWrite(W, sh)

\* The values the passes the device runs store: any value when the pass
\* writes the buffer, and no choice to make when it does not.
Stores(writes) == IF writes THEN Vals ELSE {0}

\* The device runs a recorded pass: a pass that writes the buffer stores v
\* in every cell of it.
Exec(W, pass, v) ==
    IF pass.write /\ IdMapGet(W.buffers, pass.buf)
    THEN SetDeviceData(W, pass.buf,
                       [i \in DOMAIN W.buffers.map[pass.buf].obj.data |-> v])
    ELSE W

\* compute.rs:85-159 with the encoder mode ignored: the pass is always
\* submitted and bindings.download() always called.
DispatchRestSubmitting(W, sh, external, v) ==
    LET r1 == GetOrCreateIn(W, "bgl", GenLayoutDescriptor(sh.layout), <<>>, TRUE)
        Wd == [r1.W EXCEPT !.heap = IdClone(IdClone(@, r1.id), W.id)]
        r2 == get_bind_group(Wd, r1.id, W.id)
        ok2 == IdMapGet(r2.W.bg.store, r2.id.val)
        r3 == get_pipeline_layout(r2.W, r1.id)
        r4 == get_shader_module(r3.W, sh.name)
        r5 == get_compute_pipeline(r4.W, r3.id, r4.id, "main")
        ok5 == IdMapGet(r5.W.cp.store, r5.id.val)
        pass == [buf |-> W.id.val, write |-> "WRITE" \in sh.use]
        X == r5.W
        done == BindingsDownload([Exec(X, pass, v) EXCEPT
                                     !.since.owned = @ \/ pass.write],
                                 sh)
    IN IF r1.ok /\ r2.ok /\ ok2 /\ r3.ok /\ r4.ok /\ r5.ok /\ ok5
       THEN <<[Last(done) EXCEPT !.heap = IdDrop(IdDrop(@, r2.id), r5.id)]>>
       ELSE <<[W EXCEPT !.pc = "panic"]>>

\* compute.rs:85-159: the five resolutions, the pass, and in owned-encoder
\* mode the submit and bindings.download(); the Ids of the bind group and of
\* the pipeline are dropped on return.
DispatchRest(W, sh, external, v) ==
    LET r1 == GetOrCreateIn(W, "bgl", GenLayoutDescriptor(sh.layout), <<>>, TRUE)
        Wd == [r1.W EXCEPT !.heap = IdClone(IdClone(@, r1.id), W.id)]
        r2 == get_bind_group(Wd, r1.id, W.id)
        ok2 == IdMapGet(r2.W.bg.store, r2.id.val)
        r3 == get_pipeline_layout(r2.W, r1.id)
        r4 == get_shader_module(r3.W, sh.name)
        r5 == get_compute_pipeline(r4.W, r3.id, r4.id, "main")
        ok5 == IdMapGet(r5.W.cp.store, r5.id.val)
        pass == [buf |-> W.id.val, write |-> "WRITE" \in sh.use]
        X == r5.W
        done == IF external
                THEN <<[X EXCEPT !.encoder = Append(@, pass),
                                 !.since.external = @ \/ pass.write]>>
                ELSE BindingsDownload([Exec(X, pass, v) EXCEPT
                                          !.since.owned = @ \/ pass.write],
                                      sh)
    IN IF r1.ok /\ r2.ok /\ ok2 /\ r3.ok /\ r4.ok /\ r5.ok /\ ok5
       THEN <<[Last(done) EXCEPT !.heap = IdDrop(IdDrop(@, r2.id), r5.id)]>>
       ELSE <<[W EXCEPT !.pc = "panic"]>>

dispatch_multiple(W, sh, external, v) ==
    Then(BindingsUpload(W, sh),
         LAMBDA X : DispatchRest(X, sh, external, v))

\* dispatch_multiple for a binding set that yields one group with no entries
\* (what shatter.rs:366-373 generates for a group without bindings).
DispatchUnitEmptyGroup(W, source, external) ==
    LET r1 == GetOrCreateIn(W, "bgl", <<>>, <<>>, TRUE)
        Wd == [r1.W EXCEPT !.heap = IdClone(@, r1.id)]
        r2 == GetOrCreateIn(Wd, "bg", [layout |-> r1.id.val, entries |-> <<>>],
                            <<r1.id>>, TRUE)
        r3 == get_pipeline_layout(r2.W, r1.id)
        r4 == get_shader_module(r3.W, source)
        r5 == get_compute_pipeline(r4.W, r3.id, r4.id, "main")
        pass == [buf |-> NoId.val, write |-> FALSE]
        X == [r5.W EXCEPT !.heap = IdDrop(IdDrop(@, r2.id), r5.id)]
    IN <<IF external THEN [X EXCEPT !.encoder = Append(@, pass)] ELSE X>>

\* dispatch_multiple (compute.rs:82-160) of a builder whose binding set is
\* () (bind_group.rs:32-46): upload, prepare, read and write do nothing, both
\* descriptor lists are empty, so the two map()s over them (compute.rs:87-97)
\* resolve nothing, the pipeline layout has no bind-group layouts and the
\* loop of set_bind_group (compute.rs:134-136) has nothing to set.
dispatch_unit(W, source, external) ==
    LET r3 == GetOrCreateIn(W, "pl", [bind_group_layouts |-> <<>>,
                                      push_constant_ranges |-> <<>>], <<>>, TRUE)
        r4 == get_shader_module(r3.W, source)
        r5 == get_compute_pipeline(r4.W, r3.id, r4.id, "main")
        ok5 == IdMapGet(r5.W.cp.store, r5.id.val)
        pass == [buf |-> NoId.val, write |-> FALSE]
        X == [r5.W EXCEPT !.heap = IdDrop(@, r5.id)]
    IN IF r3.ok /\ r4.ok /\ r5.ok /\ ok5
       THEN <<IF external THEN [X EXCEPT !.encoder = Append(@, pass)] ELSE X>>
       ELSE <<[W EXCEPT !.pc = "panic"]>>

\* The caller submits the encoder it lent to the builder (compute.rs:55-63).
SubmitEncoder(W, v) ==
    IF W.encoder = <<>> THEN W
    ELSE [Exec(W, Head(W.encoder), v) EXCEPT !.encoder = Tail(@)]

(***************************************************************************)
(* W and the variables.                                                    *)
(***************************************************************************)
NoKind == [descs |-> <<>>, store |-> IdMapNew, made |-> 0]

\* Instance::initialize (instance.rs:51-93): empty caches and stores.
NewInstance ==
    [bgl |-> NoKind, bg |-> NoKind, pl |-> NoKind, sm |-> NoKind, cp |-> NoKind,
     buffers |-> IdMapNew, heap |-> <<>>,
     value |-> <<>>, state |-> <<0, 0>>, id |-> NoId, buffer_size |-> 0,
     needs_download |-> FALSE, encoder |-> <<>>, staging |-> <<>>,
     pc |-> "idle", obs |-> "", since |-> NoWrites]

NotRunning == [op |-> "", start |-> NewInstance, at |-> 0]

World ==
    [bgl |-> [descs |-> bind_group_layout_descriptors, store |-> bind_group_layouts,
              made |-> created],
     bg |-> [descs |-> bind_group_descriptors, store |-> bind_groups, made |-> 0],
     pl |-> [descs |-> pipeline_layout_descriptors, store |-> pipeline_layouts,
             made |-> 0],
     sm |-> [descs |-> shader_module_sources, store |-> shader_modules, made |-> 0],
     cp |-> [descs |-> compute_pipeline_descriptors, store |-> compute_pipelines,
             made |-> 0],
     buffers |-> buffers, heap |-> arcs,
     value |-> value, state |-> state, id |-> id, buffer_size |-> buffer_size,
     needs_download |-> needs_download, encoder |-> encoder, staging |-> staging,
     pc |-> pc, obs |-> obs, since |-> since]

IsWorld(W) ==
    /\ bind_group_layout_descriptors = W.bgl.descs
    /\ bind_group_layouts = W.bgl.store
    /\ created = W.bgl.made
    /\ bind_group_descriptors = W.bg.descs
    /\ bind_groups = W.bg.store
    /\ pipeline_layout_descriptors = W.pl.descs
    /\ pipeline_layouts = W.pl.store
    /\ shader_module_sources = W.sm.descs
    /\ shader_modules = W.sm.store
    /\ compute_pipeline_descriptors = W.cp.descs
    /\ compute_pipelines = W.cp.store
    /\ buffers = W.buffers
    /\ arcs = W.heap
    /\ value = W.value
    /\ state = W.state
    /\ id = W.id
    /\ buffer_size = W.buffer_size
    /\ needs_download = W.needs_download
    /\ encoder = W.encoder
    /\ staging = W.staging
    /\ pc = W.pc
    /\ obs = W.obs
    /\ since = W.since

SetWorld(W) ==
    /\ bind_group_layout_descriptors' = W.bgl.descs
    /\ bind_group_layouts' = W.bgl.store
    /\ created' = W.bgl.made
    /\ bind_group_descriptors' = W.bg.descs
    /\ bind_groups' = W.bg.store
    /\ pipeline_layout_descriptors' = W.pl.descs
    /\ pipeline_layouts' = W.pl.store
    /\ shader_module_sources' = W.sm.descs
    /\ shader_modules' = W.sm.store
    /\ compute_pipeline_descriptors' = W.cp.descs
    /\ compute_pipelines' = W.cp.store
    /\ buffers' = W.buffers
    /\ arcs' = W.heap
    /\ value' = W.value
    /\ state' = W.state
    /\ id' = W.id
    /\ buffer_size' = W.buffer_size
    /\ needs_download' = W.needs_download
    /\ encoder' = W.encoder
    /\ staging' = W.staging
    /\ pc' = W.pc
    /\ obs' = W.obs
    /\ since' = W.since

(***************************************************************************)
(* Spec: one caller of the Instance.                                       *)
(***************************************************************************)
CacheState == [descs |-> bind_group_layout_descriptors,
               store |-> bind_group_layouts, heap |-> arcs, made |-> created]

SetCacheState(C) ==
    /\ bind_group_layout_descriptors' = C.descs
    /\ bind_group_layouts' = C.store
    /\ arcs' = C.heap
    /\ created' = C.made

Count(f) == Cardinality(DOMAIN f)

NoOp(name) == [op |-> name, via |-> "", enum |-> <<>>, key |-> <<>>, id |-> -1,
               hit |-> FALSE, dStore |-> 0, dCache |-> 0, dCreated |-> 0,
               evicted |-> {}]

\* A caller's call of get_bind_group_layout(desc), keeping the Id returned.
Resolve(desc, how, order) ==
    /\ BagCardinality(held) < MaxHeld
    /\ LET r == get_bind_group_layout(CacheState, desc)
       IN /\ SetCacheState(r.C)
          /\ held' = held (+) SetToBag({r.id})
          /\ prev' = IF last.op = "resolve" THEN last ELSE NoOp("none")
          /\ last' = [op |-> "resolve", via |-> how, enum |-> order,
                      key |-> desc, id |-> r.id.val, hit |-> r.hit,
                      dStore |-> Count(r.C.store.map) - Count(bind_group_layouts.map),
                      dCache |-> Count(r.C.descs) - Count(bind_group_layout_descriptors),
                      dCreated |-> r.C.made - created, evicted |-> {}]
          /\ UNCHANGED shader
    /\ UNCHANGED <<instVars, raceVars, bufVars, extVars>>

\* The descriptor is written by hand: any entry order.
ResolveDirect == \E desc \in Descs : Resolve(desc, "direct", desc)

\* The descriptor comes from the generated binding set, whose globals were
\* enumerated in some order.
ResolveGenerated ==
    \E order \in Descs : Resolve(GenLayoutDescriptor(order), "generated", order)

CloneHandle ==
    \E h \in BagToSet(held) :
        /\ BagCardinality(held) < MaxHeld
        /\ arcs' = IdClone(arcs, h)
        /\ held' = held (+) SetToBag({h})
        /\ prev' = NoOp("none")
        /\ last' = NoOp("clone")
        /\ UNCHANGED shader
        /\ UNCHANGED bglVars
        /\ UNCHANGED <<instVars, raceVars, bufVars, extVars>>

DropHandle ==
    \E h \in BagToSet(held) :
        /\ arcs' = IdDrop(arcs, h)
        /\ held' = held (-) SetToBag({h})
        /\ prev' = NoOp("none")
        /\ last' = NoOp("drop")
        /\ UNCHANGED shader
        /\ UNCHANGED bglVars
        /\ UNCHANGED <<instVars, raceVars, bufVars, extVars>>

Clean ==
    /\ bind_group_layouts' = cleanMap(bind_group_layouts, arcs)
    /\ arcs' = cleanHeap(bind_group_layouts, arcs)
    /\ prev' = NoOp("none")
    /\ last' = [NoOp("clean") EXCEPT
                   !.evicted = DOMAIN bind_group_layouts.map
                                   \ Retained(bind_group_layouts, arcs)]
    /\ UNCHANGED <<bind_group_layout_descriptors, created, held, shader>>
    /\ UNCHANGED <<instVars, raceVars, bufVars, extVars>>

Threads == {1, 2}

ThreadInit == [pc |-> "idle", desc |-> <<>>, id |-> NoId, res |-> NoId, calls |-> 0]

(***************************************************************************)
(* Texture2d<Format> (texture.rs:341-594): a CPU shadow of width x height  *)
(* texels, the identity of the device texture, and the two flags.  T is    *)
(* the Texture, TS the texture store (instance.rs:25).  The counters of    *)
(* TextureIds are not followed: nothing calls clean() on the texture store.*)
(***************************************************************************)
TexWidth == 2         \* texels in a row of the texture

\* The texels of a texture of the given extent, row by row.
Texels(width, height) == 1 .. width * height

\* Texture2d::new (texture.rs:541-574): a device texture under a fresh
\* identity, a zeroed shadow, both flags false.
Texture2dNew(TS, width, height) ==
    LET blank == [x \in Texels(width, height) |-> 0]
        tid == [val |-> TS.next_id, arc |-> 0]
    IN [T |-> [storage |-> blank, id |-> tid.val,
               needs_upload |-> FALSE, needs_download |-> FALSE],
        TS |-> IdMapInsert([TS EXCEPT !.next_id = @ + 1], tid, [data |-> blank])]

\* Texture::mark_needs_upload (texture.rs:362-364)
TexMarkNeedsUpload(T) == [T EXCEPT !.needs_upload = TRUE]

\* Texture::mark_needs_download (texture.rs:370-372)
TexMarkNeedsDownload(T) == [T EXCEPT !.needs_download = TRUE]

\* Texture::upload that leaves needs_upload as it finds it.
TexUploadKeepFlag(T, TS) ==
    IF ~T.needs_upload \/ Len(T.storage) = 0 THEN [T |-> T, TS |-> TS]
    ELSE [T |-> T, TS |-> [TS EXCEPT !.map[T.id].obj.data = T.storage]]

\* Texture::upload (texture.rs:400-430): swap needs_upload to false, return
\* if it was false or the storage is empty, else write_texture of the shadow.
TexUpload(T, TS) ==
    LET T1 == [T EXCEPT !.needs_upload = FALSE]
    IN IF ~T.needs_upload \/ Len(T.storage) = 0 THEN [T |-> T1, TS |-> TS]
       ELSE [T |-> T1, TS |-> [TS EXCEPT !.map[T.id].obj.data = T.storage]]

\* Texture::download (texture.rs:432-491): swap needs_download to false,
\* return if it was false or the storage is empty, else copy the device
\* texture through a staging buffer into the shadow, blocking.
TexDownload(T, TS) ==
    LET T1 == [T EXCEPT !.needs_download = FALSE]
    IN IF ~T.needs_download \/ Len(T.storage) = 0 THEN T1
       ELSE [T1 EXCEPT !.storage = TS.map[T.id].obj.data]

\* Index::index (texture.rs:577-585): download, then the texel.
TexIndex(T, TS) == TexDownload(T, TS)

\* IndexMut::index_mut that marks the texture only when nothing was pending.
TexIndexMutUnlessStale(T, TS, x, v) ==
    LET T1 == TexDownload(T, TS)
        T2 == IF T.needs_download THEN T1 ELSE TexMarkNeedsUpload(T1)
    IN [T2 EXCEPT !.storage[x] = v]

\* IndexMut::index_mut (texture.rs:587-595): download, mark_needs_upload, and
\* the caller's store through the reference it returns.
TexIndexMut(T, TS, x, v) ==
    LET T1 == TexDownload(T, TS)
        T2 == TexMarkNeedsUpload(T1)
    IN [T2 EXCEPT !.storage[x] = v]

\* Binding::read (texture.rs:507-509, 529-531) on the texture if the shader
\* reads it; Binding::prepare (texture.rs:505, 527) does nothing.
TexBindingsRead(T, TS, sh) ==
    IF "READ" \in sh.use THEN TexUpload(T, TS) ELSE [T |-> T, TS |-> TS]

\* Binding::write (texture.rs:511-513, 533-535) on the texture if the shader
\* writes it.
TexBindingsWrite(T, sh) ==
    IF "WRITE" \in sh.use THEN TexMarkNeedsDownload(T) ELSE T

\* The device runs a recorded pass on the texture: a pass that writes it
\* stores v in every texel.
TexExec(TS, pass, v) ==
    IF pass.write
    THEN [TS EXCEPT !.map[pass.tex].obj.data = [x \in DOMAIN @ |-> v]]
    ELSE TS

\* The layout entry of the texture at group 0, binding 0: a storage texture
\* with the access the shader declares (shatter.rs:219-242).
TexLayout(sh) ==
    <<[binding |-> 0,
       ty |-> IF sh.use = {"READ"} THEN "storage_texture_read_only"
              ELSE IF sh.use = {"WRITE"} THEN "storage_texture_write_only"
              ELSE "storage_texture_read_write"]>>

\* dispatch_multiple (compute.rs:82-160) of a shader bound to the texture:
\* bindings.upload() as prepare and read, the five resolutions, the pass, and
\* in owned-encoder mode the submit and bindings.download() as write.
TexDispatch(W, T, TS, sh, external, v) ==
    LET u == TexBindingsRead(T, TS, sh)
        r1 == GetOrCreateIn(W, "bgl", GenLayoutDescriptor(TexLayout(sh)), <<>>, TRUE)
        Wd == [r1.W EXCEPT !.heap = IdClone(@, r1.id)]
        r2 == GetOrCreateIn(Wd, "bg",
                            [layout |-> r1.id.val,
                             entries |-> <<[binding |-> 0, texture |-> T.id]>>],
                            <<r1.id>>,
                            IdMapGet(Wd.bgl.store, r1.id.val) /\ IdMapGet(TS, T.id))
        r3 == get_pipeline_layout(r2.W, r1.id)
        r4 == get_shader_module(r3.W, <<sh.name, "texture">>)
        r5 == get_compute_pipeline(r4.W, r3.id, r4.id, "main")
        pass == [tex |-> T.id, write |-> "WRITE" \in sh.use]
        X == [r5.W EXCEPT !.heap = IdDrop(IdDrop(@, r2.id), r5.id)]
    IN IF external
       THEN [W |-> [X EXCEPT !.encoder = Append(@, pass)], T |-> u.T, TS |-> u.TS]
       ELSE [W |-> X, T |-> TexBindingsWrite(u.T, sh), TS |-> TexExec(u.TS, pass, v)]

InitTexture ==
    LET n == Texture2dNew(IdMapNew, TexWidth, 1)
    IN texture = n.T /\ textures = n.TS

(***************************************************************************)
(* GLOBAL_INSTANCE (instance.rs:12) and its two entry points, global() and *)
(* init(desc) (instance.rs:41-49).  Both are GLOBAL_INSTANCE.get_or_init   *)
(* of a closure that runs Instance::initialize and unwraps its result.     *)
(* The cell is [state, value]: state is "incomplete", "running" (one       *)
(* thread is inside the closure) or "complete"; value is the Instance,     *)
(* [handle, desc], handle 0 while there is none.                           *)
(***************************************************************************)
MaxInitCalls == 2     \* calls of global() or init() per thread

InstanceDescriptors == {"default", "custom"}

NoInstance == [handle |-> 0, desc |-> "none"]

OnceCellNew == [state |-> "incomplete", value |-> NoInstance]

\* get_or_init that runs the closure whenever the cell is not complete.
GetOrInitUnguarded(c) == IF c.state = "complete" THEN "get" ELSE "run"

\* OnceCell::get_or_init as global() and init() call it: the value if the
\* cell is complete, the closure if no thread is running one, and otherwise
\* a wait for the thread that is.
get_or_init(c) ==
    IF c.state = "complete" THEN "get"
    ELSE IF c.state = "running" THEN "wait"
    ELSE "run"

\* A thread that is in neither entry point.
NoCall == [pc |-> "idle", fn |-> "", desc |-> "none", got |-> 0, n |-> 0]

InitOnce ==
    /\ GLOBAL_INSTANCE = OnceCellNew
    /\ initialized = 0
    /\ calls = [t \in Threads |-> NoCall]

(***************************************************************************)
(* The locks of this layer: the Mutex of a Buffer's identity               *)
(* (buffer.rs:49) and the locks inside the DashMaps of the Instance        *)
(* (instance.rs:24-37, id.rs:86-89).  A DashMap guards its entries with    *)
(* reader-writer locks: get() returns a Ref that holds a read guard until  *)
(* it is dropped, insert() and retain() take the write guard for the call. *)
(* All keys are taken to share one lock per map.  Each thread has a Buffer *)
(* of its own; the Instance is shared.  What a function does with the      *)
(* locks is a sequence of steps:                                           *)
(*   <<"read", m>>    get() on map m whose Ref is kept                     *)
(*   <<"unread", s>>  the Refs into the maps of the sequence s are dropped *)
(*   <<"write", m>>   insert() or retain() on map m                        *)
(*   <<"lock">>, <<"unlock">>   the identity Mutex of the thread's Buffer  *)
(*   <<"transfer">>   a device transfer is issued                          *)
(*   <<"block">>      the thread blocks until the device has finished      *)
(* A get() whose Ref is dropped in the statement it is in (the lookups of  *)
(* the descriptor caches) waits for no guard that is kept and keeps none,  *)
(* and is not a step.  A function that branches has one sequence per       *)
(* branch.                                                                 *)
(***************************************************************************)
LockThreads == {1, 2, 3}

StoreMaps == {"buffers", "bind_group_layouts", "bind_groups", "pipeline_layouts",
              "shader_modules", "compute_pipelines"}

\* Buffer::download that holds the identity Mutex for the read of the
\* identity alone.
LkDownloadNarrow ==
    {<<>>,
     <<<<"lock">>, <<"unlock">>, <<"read", "buffers">>, <<"transfer">>,
       <<"block">>, <<"unread", <<"buffers">>>>>>}

\* Buffer::download (buffer.rs:205-268): nothing when the flag was false or
\* the size is 0; else the guard of line 231 and the Ref of line 232 live to
\* the end of the function, across the submit (239) and the wait (242-244).
LkDownload ==
    {<<>>,
     <<<<"lock">>, <<"read", "buffers">>, <<"transfer">>, <<"block">>,
       <<"unread", <<"buffers">>>>, <<"unlock">>>>}

\* Buffer::resize_buffer after its download (buffer.rs:144-165): insert and
\* clean() on the buffer store, then the swap under the identity Mutex, whose
\* guard is a temporary of the assignment.
LkReallocate ==
    {<<>>,
     <<<<"write", "buffers">>, <<"write", "buffers">>, <<"lock">>, <<"unlock">>>>}

\* Buffer::upload after resize_buffer (buffer.rs:189-201): nothing for size
\* 0; else the guard of line 199 and the Ref of line 200 live across
\* queue.write_buffer (201).
LkUploadWrite ==
    {<<>>,
     <<<<"lock">>, <<"read", "buffers">>, <<"transfer">>,
       <<"unread", <<"buffers">>>>, <<"unlock">>>>}

\* Buffer::id (buffer.rs:270-273), called by binding_resource (buffer.rs:55-61)
LkId == {<<<<"lock">>, <<"unlock">>>>}

\* get_bind_group_layout whose lookup Ref is still alive at the inserts.
LkGetBindGroupLayoutHolding ==
    {<<>>,
     <<<<"read", "bind_group_layout_descriptors">>,
       <<"write", "bind_group_layout_descriptors">>,
       <<"write", "bind_group_layouts">>,
       <<"unread", <<"bind_group_layout_descriptors">>>>>>}

\* Instance::get_bind_group_layout (instance.rs:95-117): hit, or miss.
LkGetBindGroupLayout ==
    {<<>>,
     <<<<"write", "bind_group_layout_descriptors">>,
       <<"write", "bind_group_layouts">>>>}

\* Instance::get_bind_group (instance.rs:119-193): on a miss the Ref of the
\* layout (124) lives to the end of the function, the Refs of the buffers
\* (139) until drop(resources) (183).
LkGetBindGroup ==
    {<<>>,
     <<<<"read", "bind_group_layouts">>,
       <<"read", "buffers">>, <<"unread", <<"buffers">>>>,
       <<"write", "bind_group_descriptors">>,
       <<"write", "bind_groups">>,
       <<"unread", <<"bind_group_layouts">>>>>>}

\* compute.rs:99-102: the Refs of the bind groups, kept to the end of
\* dispatch_multiple.
LkBindGroupRefs == {<<<<"read", "bind_groups">>>>}

\* Instance::get_pipeline_layout (instance.rs:218-246)
LkGetPipelineLayout ==
    {<<>>,
     <<<<"read", "bind_group_layouts">>,
       <<"write", "pipeline_layout_descriptors">>,
       <<"write", "pipeline_layouts">>,
       <<"unread", <<"bind_group_layouts">>>>>>}

\* Instance::get_shader_module (instance.rs:195-216)
LkGetShaderModule ==
    {<<>>,
     <<<<"write", "shader_module_sources">>,
       <<"write", "shader_modules">>>>}

\* Instance::get_compute_pipeline (instance.rs:248-278)
LkGetComputePipeline ==
    {<<>>,
     <<<<"read", "pipeline_layouts">>, <<"read", "shader_modules">>,
       <<"write", "compute_pipeline_descriptors">>,
       <<"write", "compute_pipelines">>,
       <<"unread", <<"shader_modules", "pipeline_layouts">>>>>>}

\* compute.rs:121-159: the Ref of the pipeline, the pass in either encoder
\* mode, and the Refs dropped on return.
LkPass ==
    {<<<<"read", "compute_pipelines">>,
       <<"unread", <<"compute_pipelines", "bind_groups">>>>>>}

\* IdMap::clean (id.rs:105-107) on one of the stores.
LkClean == {<<<<"write", m>>>> : m \in StoreMaps}

\* The branches of a part of an operation.
Branches(part) ==
    CASE part = "download" -> LkDownload
      [] part = "reallocate" -> LkReallocate
      [] part = "upload_write" -> LkUploadWrite
      [] part = "id" -> LkId
      [] part = "get_bind_group_layout" -> LkGetBindGroupLayout
      [] part = "get_bind_group" -> LkGetBindGroup
      [] part = "bind_group_refs" -> LkBindGroupRefs
      [] part = "get_pipeline_layout" -> LkGetPipelineLayout
      [] part = "get_shader_module" -> LkGetShaderModule
      [] part = "get_compute_pipeline" -> LkGetComputePipeline
      [] part = "pass" -> LkPass
      [] part = "clean" -> LkClean

\* The parts of the operations of the claim, in the order the code runs
\* them.  resize_buffer is download (140-142) and the reallocation; upload
\* is nothing when the Buffer is stale, and else resize_buffer, which then
\* has nothing to download, and the write;
\* dispatch_multiple is the prepare and read of its binding
\* (compute.rs:83), the resolutions (85-119) and the pass (121-159).
Operations ==
    [download |-> <<"download">>,
     resize_buffer |-> <<"download", "reallocate">>,
     upload |-> <<"reallocate", "upload_write">>,
     clean |-> <<"clean">>,
     dispatch |-> <<"download", "reallocate", "upload_write",
                    "get_bind_group_layout", "id", "get_bind_group",
                    "bind_group_refs", "get_pipeline_layout",
                    "get_shader_module", "get_compute_pipeline", "pass">>]

\* A thread that is in no operation and holds nothing.
NoLocks == [parts |-> <<>>, todo |-> <<>>, reads |-> <<>>, mutex |-> FALSE]

InitLocks == lk = [t \in LockThreads |-> NoLocks]

(***************************************************************************)
(* BufferVec as the macro generates it (shatter.rs:719-811), in machine     *)
(* words: usize is WordBits bits wide, isize::MAX is half its range.  A    *)
(* payload type T is [item, head], each a [size, align]; V is [T, state,   *)
(* mem, pushed, ret, op, pc]: the layout state (length, capacity), the     *)
(* cells of the trailing array that are allocated, the items pushed and    *)
(* not popped (a history kept for the properties), what the last pop       *)
(* returned, the last call, and "abort" once a call has panicked.          *)
(***************************************************************************)
WordBits == 6         \* bits of a usize

UsizeMax == 2 ^ WordBits - 1

IsizeMax == 2 ^ (WordBits - 1) - 1

\* Arithmetic that wraps, as usize arithmetic does without overflow checks.
Wrap(n) == n % (UsizeMax + 1)

RoundUp(n, align) == ((n + align - 1) \div align) * align

ItemTypes == {[size |-> 0, align |-> 1], [size |-> 1, align |-> 1],
              [size |-> 4, align |-> 4]}

HeadTypes == {[size |-> 0, align |-> 1], [size |-> 4, align |-> 4]}

Err == [size |-> -1, align |-> 0]

\* Layout::from_size_align: Err when the size, rounded up to the alignment,
\* exceeds isize::MAX.
LayoutFrom(sz, align) ==
    IF RoundUp(sz, align) > IsizeMax THEN Err ELSE [size |-> sz, align |-> align]

\* Layout::array::<Item>(n), with its checked multiplication.
LayoutArray(item, n) == LayoutFrom(item.size * n, item.align)

\* Layout::array::<Item>(n) that multiplies without the check.
LayoutArrayWrapping(item, n) ==
    [size |-> Wrap(item.size * n), align |-> item.align]

\* sized_layout.extend(array_layout), first component, with its checked sum.
LayoutExtend(a, b) ==
    LayoutFrom(RoundUp(a.size, b.align) + b.size, Max(a.align, b.align))

\* Layout::pad_to_align
PadToAlign(l) == [l EXCEPT !.size = RoundUp(@, l.align)]

NoRet == [some |-> FALSE, item |-> 0]

NoVec ==
    [T |-> [item |-> Err, head |-> Err], state |-> <<0, 0>>, mem |-> <<>>,
     pushed |-> <<>>, ret |-> NoRet, op |-> "", pc |-> "none"]

\* Buffer::new for T (buffer.rs:105-136): T::init() (shatter.rs:673-677) and
\* no trailing array allocated yet.
VecNew(T) ==
    [NoVec EXCEPT !.T = T,
                  !.state = <<0, IF T.item.size = 0 THEN UsizeMax ELSE 0>>,
                  !.op = "new", !.pc = "ok"]

Abort(V) == [V EXCEPT !.pc = "abort"]

\* BufferVec::grow without the assert on the item size and with the
\* doubling as it wraps.
VecGrowWrapping(V, checks, fits) ==
    LET cap == V.state[2]
        new_cap == IF cap = 0 THEN 1 ELSE Wrap(2 * cap)
        array_layout == LayoutArray(V.T.item, new_cap)
        new_layout == IF array_layout = Err THEN Err
                      ELSE LayoutExtend(V.T.head, array_layout)
    IN IF array_layout = Err \/ new_layout = Err THEN Abort(V)
       ELSE IF ~fits THEN Abort(V)
       ELSE [V EXCEPT !.state[2] = new_cap,
                      !.mem = IF V.T.item.size = 0 THEN <<>>
                              ELSE @ \o [i \in 1 .. new_cap - cap |-> "uninit"]]

\* BufferVec::grow (shatter.rs:727-769).  checks: the build panics on
\* arithmetic overflow (otherwise it wraps); fits: the allocator returns
\* memory.
\*   731      assert the item is not zero-sized
\*   733-746  the new capacity, 1 or twice the old one, and its layout:
\*            Layout::array(..).unwrap() and extend(..).unwrap()
\*   748-751  assert the layout is at most isize::MAX bytes
\*   753-765  alloc or realloc; a null pointer is handle_alloc_error
\*   767      *capacity = new_cap
VecGrow(V, checks, fits) ==
    LET cap == V.state[2]
        new_cap == IF cap = 0 THEN 1 ELSE Wrap(2 * cap)
        array_layout == LayoutArray(V.T.item, new_cap)
        new_layout == IF array_layout = Err THEN Err
                      ELSE LayoutExtend(V.T.head, array_layout)
    IN IF V.T.item.size = 0 THEN Abort(V)
       ELSE IF checks /\ 2 * cap > UsizeMax THEN Abort(V)
       ELSE IF array_layout = Err \/ new_layout = Err THEN Abort(V)
       ELSE IF PadToAlign(new_layout).size > IsizeMax THEN Abort(V)
       ELSE IF ~fits THEN Abort(V)
       ELSE [V EXCEPT !.state[2] = new_cap,
                      !.mem = @ \o [i \in 1 .. new_cap - cap |-> "uninit"]]

\* BufferVec::push (shatter.rs:771-790): grow when length = capacity, write
\* the item at index length, add 1 to the length.
VecPush(V, item, checks, fits) ==
    LET G == IF V.state[1] = V.state[2] THEN VecGrow(V, checks, fits) ELSE V
    IN IF G.pc = "abort" THEN [G EXCEPT !.op = "push"]
       ELSE [G EXCEPT !.mem = IF G.T.item.size = 0 THEN @
                               ELSE [@ EXCEPT ![G.state[1] + 1] = item],
                      !.state[1] = Wrap(@ + 1),
                      !.pushed = Append(@, item),
                      !.op = "push"]

\* BufferVec::pop that returns the item without shortening the array.
VecPopKeeping(V) ==
    IF V.state[1] = 0 THEN [V EXCEPT !.ret = NoRet, !.op = "pop"]
    ELSE [V EXCEPT !.ret = [some |-> TRUE,
                            item |-> IF V.T.item.size = 0 THEN 0
                                     ELSE V.mem[V.state[1]]],
                   !.op = "pop"]

\* BufferVec::pop (shatter.rs:792-811): None on length 0; otherwise the
\* length loses 1 and the item at the new length is read out.
VecPop(V) ==
    IF V.state[1] = 0 THEN [V EXCEPT !.ret = NoRet, !.op = "pop"]
    ELSE [V EXCEPT !.state[1] = @ - 1,
                   !.ret = [some |-> TRUE,
                            item |-> IF V.T.item.size = 0 THEN 0
                                     ELSE V.mem[V.state[1]]],
                   !.pushed = Front(@),
                   !.op = "pop"]

InitVec == vec = NoVec

(***************************************************************************)
(* TextureStorageD2<Data> (texture.rs:167-215) and the texel addresses of  *)
(* TextureStorageData::index (texture.rs:70-89), in bytes from the start   *)
(* of the shadow allocation.  The widths and heights are ones the u32      *)
(* fields of the extent hold.  I is [width, height, texel, size, stores,   *)
(* pc]: the dimensions, size_of::<Data>(), the bytes of the allocation,    *)
(* the texels stored to as [x, y, at], and "abort" once an index was       *)
(* refused.                                                                *)
(***************************************************************************)
COPY_BYTES_PER_ROW_ALIGNMENT == 256

TexelSizes == {4, 8, 16}        \* size_of::<Format::Data>() of the formats

Widths == {1, 2, 16, 17}

MaxRows == 2                    \* rows of the texture at most

MaxStores == 2                  \* texels stored to at most

\* bytes_per_row that does not pad the row.
BytesPerRowUnpadded(texel, width) == width * texel

\* bytes_per_row (texture.rs:157-165): the layout of width texels, padded to
\* the row alignment.
bytes_per_row(texel, width) ==
    RoundUp(width * texel, COPY_BYTES_PER_ROW_ALIGNMENT)

\* TextureStorageD2::new (texture.rs:173-189)
TextureStorageD2New(texel, width, height) ==
    [width |-> width, height |-> height, texel |-> texel,
     size |-> bytes_per_row(texel, width) * height,
     stores |-> {}, pc |-> "ok"]

\* TextureStorage::extent (texture.rs:192-198)
extent(I) == [width |-> I.width, height |-> I.height, depth_or_array_layers |-> 1]

\* TextureStorageData::index (texture.rs:70-89): the assert, and the offset
\* of the pointer it returns.
index(I, e, x, y, z) ==
    LET bpr == bytes_per_row(I.texel, e.width)
        rows_per_image == e.height
        bytes_per_image == rows_per_image * bpr
    IN [ok |-> x < e.width /\ y < e.height /\ z < e.depth_or_array_layers,
        at |-> z * bytes_per_image + y * bpr + x * I.texel]

\* IndexMut for Texture2d (texture.rs:587-595) and a store through the
\* reference it returns.
StoreTexel(I, x, y) ==
    LET r == index(I, extent(I), x, y, 0)
    IN IF r.ok
       THEN [I EXCEPT !.stores = @ \cup {[x |-> x, y |-> y, at |-> r.at]}]
       ELSE [I EXCEPT !.pc = "abort",
                      !.stores = @ \cup {[x |-> x, y |-> y, at |-> -1]}]

NoImage ==
    [width |-> 0, height |-> 0, texel |-> 0, size |-> 0, stores |-> {},
     pc |-> "none"]

InitImage == image = NoImage

\* The program after Instance::initialize and Buffer::new.
InitWorld == IsWorld(BufferNew(NewInstance)) /\ running = NotRunning

InitCallers ==
    /\ shader \in Shaders
    /\ held = EmptyBag
    /\ prev = NoOp("none")
    /\ last = NoOp("none")

Init ==
    /\ InitWorld /\ InitCallers /\ thr = [t \in Threads |-> ThreadInit]
    /\ InitTexture /\ InitOnce /\ InitLocks /\ InitVec /\ InitImage

Next ==
    \/ ResolveDirect
    \/ ResolveGenerated
    \/ CloneHandle
    \/ DropHandle
    \/ Clean

Spec == Init /\ [][Next]_vars

(***************************************************************************)
(* SpecRace: two threads in get_bind_group_layout.  Each DashMap get or    *)
(* insert and each atomic fetch_add is one step; a thread keeps the Id a   *)
(* call returned until it releases it.                                     *)
(***************************************************************************)
\* instance.rs:99-101: the cache lookup; a hit clones the cached Id and returns.
TLookup(t) ==
    /\ thr[t].pc = "idle" /\ thr[t].res = NoId /\ thr[t].calls < MaxCalls
    /\ \E desc \in Descs :
          IF CacheHit(CacheState, desc)
          THEN LET r == HitClone(CacheState, desc)
               IN /\ SetCacheState(r.C)
                  /\ thr' = [thr EXCEPT ![t].desc = desc, ![t].res = r.id,
                                         ![t].calls = @ + 1]
          ELSE /\ thr' = [thr EXCEPT ![t].desc = desc, ![t].pc = "create"]
               /\ UNCHANGED <<bglVars, arcs>>
    /\ UNCHANGED <<instVars, callerVars, bufVars, extVars>>

\* instance.rs:103-108: build the device object.
TCreate(t) ==
    /\ thr[t].pc = "create"
    /\ SetCacheState(CreateLayout(CacheState))
    /\ thr' = [thr EXCEPT ![t].pc = "next_id"]
    /\ UNCHANGED <<instVars, callerVars, bufVars, extVars>>

\* instance.rs:110
TNextId(t) ==
    /\ thr[t].pc = "next_id"
    /\ LET a == AllocId(CacheState)
       IN /\ SetCacheState(a.C)
          /\ thr' = [thr EXCEPT ![t].pc = "cache_insert", ![t].id = a.id]
    /\ UNCHANGED <<instVars, callerVars, bufVars, extVars>>

\* instance.rs:112-113
TCacheInsert(t) ==
    /\ thr[t].pc = "cache_insert"
    /\ SetCacheState(CacheInsert(CacheState, thr[t].desc, thr[t].id))
    /\ thr' = [thr EXCEPT ![t].pc = "store_insert"]
    /\ UNCHANGED <<instVars, callerVars, bufVars, extVars>>

\* instance.rs:114-116: the store insert, and the return of id.
TStoreInsert(t) ==
    /\ thr[t].pc = "store_insert"
    /\ SetCacheState(StoreInsert(CacheState, thr[t].desc, thr[t].id))
    /\ thr' = [thr EXCEPT ![t].pc = "idle", ![t].res = thr[t].id,
                           ![t].id = NoId, ![t].calls = @ + 1]
    /\ UNCHANGED <<instVars, callerVars, bufVars, extVars>>

\* The caller drops the Id a call returned (id.rs:40-44).
TRelease(t) ==
    /\ thr[t].pc = "idle" /\ thr[t].res # NoId
    /\ arcs' = IdDrop(arcs, thr[t].res)
    /\ thr' = [thr EXCEPT ![t].res = NoId]
    /\ UNCHANGED <<bglVars, instVars, callerVars, bufVars, extVars>>

NextRace ==
    \E t \in Threads :
        \/ TLookup(t)
        \/ TCreate(t)
        \/ TNextId(t)
        \/ TCacheInsert(t)
        \/ TStoreInsert(t)
        \/ TRelease(t)

SpecRace == Init /\ [][NextRace]_vars

(***************************************************************************)
(* SpecBuf: the owner of the Buffer calls its operations and dispatches    *)
(* the shader on it.  Every call is one step, from the state it is made in *)
(* to the state on return; a call of download() itself takes one step per  *)
(* state of Buffer::download.  running is that call, the state it was made *)
(* in and how far it has got; nothing else starts before it has returned.  *)
(***************************************************************************)
Idle == pc = "idle" /\ running.op = ""

\* The operations whose calls on a Buffer with needs_download set obs records.
Observed == {"upload", "deref"}

\* The state an operation is called in, with the call recorded in obs.
Called(name) ==
    [World EXCEPT !.obs = IF name \in Observed /\ needs_download THEN name ELSE ""]

\* A call of an operation that goes through the states t.
Do(t) ==
    /\ Idle
    /\ SetWorld(Last(t))
    /\ UNCHANGED <<running, callerVars, raceVars, extVars>>

\* The state the operation name was, or is now, called in.
Start(name) == IF running.op = name THEN running.start ELSE Called(name)

\* The next step of the operation name, which goes through the states t.
Go(name, t) ==
    /\ Idle \/ running.op = name
    /\ LET k == running.at + 1
       IN /\ SetWorld(t[k])
          /\ running' = IF k = Len(t) THEN NotRunning
                        ELSE [op |-> name, start |-> Start(name), at |-> k]
    /\ UNCHANGED <<callerVars, raceVars, extVars>>

BufPush ==
    /\ len(state) < MaxLen
    /\ \E item \in Vals : Do(<<push(Called("push"), item)>>)

BufPop == Do(<<pop(Called("pop")).W>>)

BufDeref == Do(deref(Called("deref")))

\* deref_mut and a store of v in cell i of the shadow, or no store (i = 0).
BufDerefMut ==
    \E s \in {<<0, 0>>} \cup ((DOMAIN value) \X Vals) :
        Do(deref_mut(Called("deref_mut"), s[1], s[2]))

BufMarkNeedsDownload == Do(mark_needs_download(Called("mark_needs_download")))

BufUpload == Do(upload(Called("upload")))

BufDownload == Go("download", download(Start("download")))

BufResizeBuffer == Do(resize_buffer(Called("resize_buffer")))

\* The owner drops the Buffer; no operation of it can be called afterwards.
BufDrop == Do(BufferDrop(Called("drop")))

\* dispatch on a builder with its own encoder, or with the caller's.
Dispatch ==
    \E external \in BOOLEAN :
        /\ external => Len(encoder) < MaxPending
        /\ \E v \in Stores(~external /\ "WRITE" \in shader.use) :
              Do(dispatch_multiple(Called("dispatch"), shader, external, v))

CallerSubmit ==
    /\ encoder # <<>>
    /\ \E v \in Stores(Head(encoder).write) :
          Do(<<SubmitEncoder(Called("submit"), v)>>)

NextBuf ==
    \/ BufPush
    \/ BufPop
    \/ BufDeref
    \/ BufDerefMut
    \/ BufMarkNeedsDownload
    \/ BufUpload
    \/ BufDownload
    \/ BufResizeBuffer
    \/ BufDrop
    \/ Dispatch
    \/ CallerSubmit

SpecBuf == Init /\ [][NextBuf]_vars

(***************************************************************************)
(* SpecGrow: the owner of the Buffer grows it past several reallocations   *)
(* of the device buffer.  No shader is dispatched, so the device holds     *)
(* what upload wrote, and the items pushed are all 0.                      *)
(***************************************************************************)
MaxGrow == 5          \* items pushed at most in SpecGrow

GrowPush == len(state) < MaxGrow /\ Do(<<push(Called("push"), 0)>>)

\* A dispatch of a compute shader without bindings, in either encoder mode.
GrowDispatchUnit ==
    \E external \in BOOLEAN :
        /\ external => Len(encoder) < MaxPending
        /\ Do(dispatch_unit(Called("dispatch"), "unit", external))

NextGrow ==
    \/ GrowPush
    \/ BufPop
    \/ BufDeref
    \/ BufMarkNeedsDownload
    \/ BufUpload
    \/ BufDownload
    \/ BufResizeBuffer
    \/ BufDrop
    \/ GrowDispatchUnit
    \/ CallerSubmit

SpecGrow == Init /\ [][NextGrow]_vars

(***************************************************************************)
(* SpecTex: one Texture2d, its operations, and dispatches of the shader on *)
(* it in both encoder modes.                                               *)
(***************************************************************************)
\* An operation on the Texture that leaves the Instance and the Buffer alone.
TexOp(T, TS) ==
    /\ Idle
    /\ texture' = T
    /\ textures' = TS
    /\ UNCHANGED <<bglVars, instVars, callerVars, raceVars, bufVars, arcs,
                   onceVars, lockVars, pureVars>>

TexRead == TexOp(TexIndex(texture, textures), textures)

TexWrite ==
    \E x \in DOMAIN texture.storage, v \in Vals :
        TexOp(TexIndexMut(texture, textures, x, v), textures)

TexCallUpload ==
    LET u == TexUpload(texture, textures) IN TexOp(u.T, u.TS)

TexCallDownload == TexOp(TexDownload(texture, textures), textures)

TexCallMarkNeedsUpload == TexOp(TexMarkNeedsUpload(texture), textures)

TexCallMarkNeedsDownload == TexOp(TexMarkNeedsDownload(texture), textures)

\* A dispatch on the Texture, which ends in the state r = [W, T, TS].
TexDo(r) ==
    /\ Idle
    /\ SetWorld(r.W)
    /\ texture' = r.T
    /\ textures' = r.TS
    /\ UNCHANGED <<running, callerVars, raceVars, onceVars, lockVars, pureVars>>

TexCallDispatch ==
    \E external \in BOOLEAN :
        /\ external => Len(encoder) < MaxPending
        /\ \E v \in Stores(~external /\ "WRITE" \in shader.use) :
              TexDo(TexDispatch(World, texture, textures, shader, external, v))

\* The caller submits the encoder it lent to the builder (compute.rs:55-63).
TexCallerSubmit ==
    /\ Idle
    /\ encoder # <<>>
    /\ \E v \in Stores(Head(encoder).write) :
          textures' = TexExec(textures, Head(encoder), v)
    /\ SetWorld([World EXCEPT !.encoder = Tail(@)])
    /\ UNCHANGED <<texture, running, callerVars, raceVars, onceVars, lockVars, pureVars>>

NextTex ==
    \/ TexRead
    \/ TexWrite
    \/ TexCallUpload
    \/ TexCallDownload
    \/ TexCallMarkNeedsUpload
    \/ TexCallMarkNeedsDownload
    \/ TexCallDispatch
    \/ TexCallerSubmit

SpecTex == Init /\ [][NextTex]_vars

(***************************************************************************)
(* SpecInit: the threads of the program calling Instance::global() and     *)
(* Instance::init(desc), one step of get_or_init at a time.                *)
(***************************************************************************)
OnceStep(t, c, cell, made) ==
    /\ calls' = [calls EXCEPT ![t] = c]
    /\ GLOBAL_INSTANCE' = cell
    /\ initialized' = made
    /\ UNCHANGED <<bglVars, instVars, callerVars, raceVars, bufVars, arcs,
                   texVars, lockVars, pureVars>>

\* Thread t calls global() (instance.rs:41-45) or init(desc) (47-49).
OnceCall(t) ==
    /\ calls[t].pc \in {"idle", "returned"}
    /\ calls[t].n < MaxInitCalls
    /\ \E fn \in {"global", "init"} :
       \E d \in IF fn = "global" THEN {"default"} ELSE InstanceDescriptors :
           OnceStep(t, [pc |-> "enter", fn |-> fn, desc |-> d, got |-> 0,
                        n |-> calls[t].n + 1],
                    GLOBAL_INSTANCE, initialized)

\* get_or_init finds the cell complete and returns the value in it.
OnceGet(t) ==
    /\ calls[t].pc = "enter"
    /\ get_or_init(GLOBAL_INSTANCE) = "get"
    /\ OnceStep(t, [calls[t] EXCEPT !.pc = "returned",
                                    !.got = GLOBAL_INSTANCE.value.handle],
                GLOBAL_INSTANCE, initialized)

\* get_or_init finds the cell incomplete and enters the closure.
OnceRun(t) ==
    /\ calls[t].pc = "enter"
    /\ get_or_init(GLOBAL_INSTANCE) = "run"
    /\ OnceStep(t, [calls[t] EXCEPT !.pc = "initialize"],
                [GLOBAL_INSTANCE EXCEPT !.state = "running"], initialized)

\* Instance::initialize (instance.rs:51-93) returns Ok: the closure returns
\* the Instance, which get_or_init stores and returns.
OnceInitialized(t) ==
    /\ calls[t].pc = "initialize"
    /\ LET inst == [handle |-> initialized + 1, desc |-> calls[t].desc]
       IN OnceStep(t, [calls[t] EXCEPT !.pc = "returned", !.got = inst.handle],
                   [state |-> "complete", value |-> inst], initialized + 1)

\* Instance::initialize returns Err: unwrap() panics in the closure, the cell
\* is left incomplete and the thread unwinds.
OnceFailed(t) ==
    /\ calls[t].pc = "initialize"
    /\ OnceStep(t, [calls[t] EXCEPT !.pc = "panicked"],
                [GLOBAL_INSTANCE EXCEPT !.state = "incomplete"], initialized)

NextInit ==
    \E t \in Threads :
        \/ OnceCall(t)
        \/ OnceGet(t)
        \/ OnceRun(t)
        \/ OnceInitialized(t)
        \/ OnceFailed(t)

SpecInit == Init /\ [][NextInit]_vars

(***************************************************************************)
(* SpecLock: the threads running upload, download, resize_buffer, clean()  *)
(* and dispatches, each on its own Buffer, one lock step at a time.        *)
(***************************************************************************)
\* The sequence s without its first occurrence of m.
RECURSIVE Without(_, _)
Without(s, m) ==
    IF s = <<>> THEN <<>>
    ELSE IF Head(s) = m THEN Tail(s)
    ELSE <<Head(s)>> \o Without(Tail(s), m)

\* The sequence s without one occurrence of each member of the sequence ms.
RECURSIVE WithoutAll(_, _)
WithoutAll(s, ms) ==
    IF ms = <<>> THEN s ELSE WithoutAll(Without(s, Head(ms)), Tail(ms))

\* Some thread holds a Ref into map m.
HasReader(m) == \E u \in LockThreads : \E i \in DOMAIN lk[u].reads : lk[u].reads[i] = m

\* The step at the head of a thread's sequence can be taken: a write guard
\* needs the map free of Refs, the Mutex needs to be free, and a Ref is
\* granted whenever no write guard is held, which between steps is always.
CanTake(t, step) ==
    CASE step[1] = "write" -> ~HasReader(step[2])
      [] step[1] = "lock" -> ~lk[t].mutex
      [] OTHER -> TRUE

\* The thread after the step.
Taken(L, step) ==
    LET rest == [L EXCEPT !.todo = Tail(@)]
    IN CASE step[1] = "read" -> [rest EXCEPT !.reads = Append(@, step[2])]
         [] step[1] = "unread" -> [rest EXCEPT !.reads = WithoutAll(@, step[2])]
         [] step[1] = "lock" -> [rest EXCEPT !.mutex = TRUE]
         [] step[1] = "unlock" -> [rest EXCEPT !.mutex = FALSE]
         [] OTHER -> rest

LockStep(t, L) ==
    /\ lk' = [lk EXCEPT ![t] = L]
    /\ UNCHANGED <<bglVars, instVars, callerVars, raceVars, bufVars, arcs,
                   texVars, onceVars, pureVars>>

\* Thread t, in no operation, calls one.
LockCall(t) ==
    /\ lk[t].todo = <<>> /\ lk[t].parts = <<>>
    /\ \E o \in DOMAIN Operations :
           LockStep(t, [lk[t] EXCEPT !.parts = Operations[o]])

\* Thread t enters the next part of its operation, in one of its branches.
LockBranch(t) ==
    /\ lk[t].todo = <<>> /\ lk[t].parts # <<>>
    /\ \E b \in Branches(Head(lk[t].parts)) :
           LockStep(t, [lk[t] EXCEPT !.parts = Tail(@), !.todo = b])

\* Thread t takes the next step of the part it is in.
LockTake(t) ==
    /\ lk[t].todo # <<>>
    /\ CanTake(t, Head(lk[t].todo))
    /\ LockStep(t, Taken(lk[t], Head(lk[t].todo)))

NextLock ==
    \E t \in LockThreads :
        \/ LockCall(t)
        \/ LockBranch(t)
        \/ LockTake(t)

\* The locking does not depend on the shader: one of them is enough.
InitLock == Init /\ shader.name = "updater"

SpecLock == InitLock /\ [][NextLock]_vars

(***************************************************************************)
(* SpecVec: one Buffer<T> with a trailing array, for each payload type T,  *)
(* pushed to until growth is refused, and popped from.                     *)
(***************************************************************************)
VecStep(V) ==
    /\ vec' = V
    /\ UNCHANGED <<bglVars, instVars, callerVars, raceVars, bufVars, arcs,
                   texVars, onceVars, lockVars, image>>

VecCallNew ==
    /\ vec.pc = "none"
    /\ \E item \in ItemTypes, head \in HeadTypes :
          VecStep(VecNew([item |-> item, head |-> head]))

\* A push of an item; the builds and the allocator decide what a growth
\* that overflows, or asks for too much, does.
VecCallPush ==
    /\ vec.pc = "ok"
    /\ \E item \in (IF vec.T.item.size # 0 /\ Len(vec.pushed) < MaxLen
                    THEN Vals ELSE {0}) :
       \E checks \in BOOLEAN, fits \in BOOLEAN :
          VecStep(VecPush(vec, item, checks, fits))

VecCallPop ==
    /\ vec.pc = "ok"
    /\ VecStep(VecPop(vec))

NextVec ==
    \/ VecCallNew
    \/ VecCallPush
    \/ VecCallPop

\* No shader is dispatched in SpecVec and SpecIdx: one will do.
InitPure == Init /\ shader.name = "updater"

SpecVec == InitPure /\ [][NextVec]_vars

(***************************************************************************)
(* SpecIdx: a 2D texture shadow of each size and format, and stores to     *)
(* texels of it, in and out of its extent.                                 *)
(***************************************************************************)
IdxStep(I) ==
    /\ image' = I
    /\ UNCHANGED <<bglVars, instVars, callerVars, raceVars, bufVars, arcs,
                   texVars, onceVars, lockVars, vec>>

IdxNew ==
    /\ image.pc = "none"
    /\ \E texel \in TexelSizes, width \in Widths, height \in 1 .. MaxRows :
          IdxStep(TextureStorageD2New(texel, width, height))

IdxStore ==
    /\ image.pc = "ok"
    /\ Cardinality(image.stores) < MaxStores
    /\ \E x \in 0 .. image.width, y \in 0 .. image.height :
          IdxStep(StoreTexel(image, x, y))

NextIdx ==
    \/ IdxNew
    \/ IdxStore

SpecIdx == InitPure /\ [][NextIdx]_vars

(***************************************************************************)
(* Properties of the descriptor cache and the resource store.              *)
(***************************************************************************)
TwoResolves == prev.op = "resolve" /\ last.op = "resolve"

HeldFor(v) == {h \in BagToSet(held) : h.val = v}

\* C5: resolving the same bind-group-layout descriptor twice in a row returns
\* equal identities, the second call creates no device object and adds no
\* entry, and a first call that missed added exactly one entry to the
\* Resource Store and one to the Descriptor Cache.
C5_ResolveTwiceIdempotent ==
    (TwoResolves /\ prev.key = last.key) =>
        /\ last.id = prev.id
        /\ last.hit
        /\ last.dCreated = 0 /\ last.dStore = 0 /\ last.dCache = 0
        /\ (~prev.hit => prev.dCreated = 1 /\ prev.dStore = 1 /\ prev.dCache = 1)

C5_Witness ==
    /\ TwoResolves /\ prev.key = last.key /\ ~prev.hit
    /\ last.id = prev.id
    /\ Count(bind_group_layouts.map) = 1 /\ Count(bind_group_layout_descriptors) = 1

\* C6: when two threads have each resolved the same descriptor, whatever the
\* interleaving of their steps, they hold the same identity and the store has
\* exactly one device object for that descriptor.
C6_ConcurrentResolveOneObject ==
    \A t \in Threads, u \in Threads :
        (t # u /\ thr[t].pc = "idle" /\ thr[u].pc = "idle"
              /\ thr[t].res # NoId /\ thr[u].res # NoId
              /\ thr[t].desc = thr[u].desc) =>
            /\ thr[t].res.val = thr[u].res.val
            /\ Cardinality({v \in DOMAIN bind_group_layouts.map :
                               bind_group_layouts.map[v].obj = thr[t].desc}) = 1

\* C7: in every state, also while another thread is inside a resolution,
\* every identity stored in the Descriptor Cache has an entry in the Resource
\* Store, so get() on an identity obtained from a cache hit finds the object.
C7_CachedIdentityInStore ==
    \A d \in DOMAIN bind_group_layout_descriptors :
        IdMapGet(bind_group_layouts, bind_group_layout_descriptors[d].val)

C9_CleanReclaimsUnreferenced ==
    last.op = "clean" =>
        \A v \in DOMAIN bind_group_layouts.map :
            \E h \in HeldFor(v) : h.arc = bind_group_layouts.map[v].arc

C9_Witness ==
    /\ last.op = "clean"
    /\ \E v \in last.evicted :
           HeldFor(v) = {} /\ ~IdMapGet(bind_group_layouts, v)

\* C10: clean() removes no entry for which a handle is live, be it the one
\* the creating resolution returned, one a later cache hit returned, or a
\* clone of either.
C10_CleanKeepsLiveEntries ==
    last.op = "clean" => \A v \in last.evicted : HeldFor(v) = {}

\* The handles the caller holds for the identity v, each copy counted.
RECURSIVE Copies(_)
Copies(hs) ==
    IF hs = {} THEN 0
    ELSE LET h == CHOOSE x \in hs : TRUE
         IN CopiesIn(h, held) + Copies(hs \ {h})

\* C38 as stated: for every entry of the Resource Store, the counter
\* clean() reads through the entry's key equals the number of handles for
\* the entry's identity that are live outside the store, whether they came
\* from the creating resolution, from a cache hit or from a clone; and no
\* live handle has a counter that has wrapped below zero.
C38_CountIsLiveHandles ==
    /\ \A v \in DOMAIN bind_group_layouts.map :
           ref_count(arcs, [val |-> v, arc |-> bind_group_layouts.map[v].arc])
               = Copies(HeldFor(v))
    /\ \A h \in BagToSet(held) : ref_count(arcs, h) >= 0

\* C39 as stated: the identity a resolution has just returned has an entry
\* in the Resource Store, whatever resolutions, drops and clean() calls came
\* before: if clean() evicted the entry, the resolution missed the cache and
\* created the object again.
C39_ResolvedIdentityInStore ==
    last.op = "resolve" => IdMapGet(bind_group_layouts, last.id)

(***************************************************************************)
(* Properties of the lifetime of Resource Store entries.                   *)
(***************************************************************************)
\* The identities with an entry in the buffer store.
BufferIds == DOMAIN buffers.map

\* C11 as stated: no step of any operation other than clean() itself, upload
\* and resize_buffer among them, removes an entry of the buffer store.
C11_OnlyCleanRemoves == [][BufferIds \subseteq BufferIds']_vars

\* C11 amended: an entry leaves the buffer store only in a step in which
\* clean() ran, which besides a call of clean() is a resize_buffer (from
\* upload or by itself) that installed a new identity; the entries removed
\* are ones whose key counter was 0.  Dropping the Buffer, download, deref,
\* push, pop and marking remove nothing.
C11_RemovedOnlyWhereCleanRuns ==
    [][\/ BufferIds \subseteq BufferIds'
       \/ /\ id' # id
          /\ \A v \in BufferIds \ BufferIds' :
                 ~RefCountPositive(arcs[buffers.map[v].arc])]_vars

C11_Witness ==
    /\ pc = "idle" /\ id.val = 2
    /\ ~IdMapGet(buffers, 0)
    /\ IdMapGet(buffers, 1) /\ IdMapGet(buffers, 2)

\* C12: after the Buffer has been dropped, its device identity has no entry
\* in the buffer store.
C12_DropRemovesDeviceObject == pc = "dropped" => ~IdMapGet(buffers, id.val)

\* The identities threads have allocated and not yet returned.
InFlight == {t \in Threads : thr[t].id # NoId}

\* C13: with threads calling next_id() on one store concurrently, every
\* call returns the value the counter had and moves the counter up by one,
\* so each identity is greater than all allocated before it; identities in
\* flight are pairwise distinct, are not yet in the store, and every
\* identity in the store or in flight is below the counter.
C13_NextIdDistinctIncreasing ==
    [][/\ bind_group_layouts'.next_id >= bind_group_layouts.next_id
       /\ \A t \in Threads :
              (thr'[t].id # NoId /\ thr[t].id = NoId) =>
                  /\ thr'[t].id.val = bind_group_layouts.next_id
                  /\ bind_group_layouts'.next_id = bind_group_layouts.next_id + 1
                  /\ \A v \in DOMAIN bind_group_layouts.map : v < thr'[t].id.val
                  /\ \A u \in InFlight : thr[u].id.val < thr'[t].id.val
       /\ \A t \in InFlight', u \in InFlight' :
              t # u => thr'[t].id.val # thr'[u].id.val
       /\ \A t \in InFlight' :
              /\ thr'[t].id.val < bind_group_layouts'.next_id
              /\ ~IdMapGet(bind_group_layouts', thr'[t].id.val)
       /\ \A v \in DOMAIN bind_group_layouts'.map :
              v < bind_group_layouts'.next_id]_vars

C13_Witness ==
    /\ InFlight = Threads
    /\ thr[1].id.val # thr[2].id.val
    /\ bind_group_layouts.next_id >= 2

(***************************************************************************)
(* Properties of the Buffer: construction, growth, reallocation.           *)
(***************************************************************************)
\* The layout size of T at its initial state, or 4 bytes if that is more.
InitialDeviceSize == IF size(init) < MinBufferSize THEN MinBufferSize ELSE size(init)

\* C14: whatever the Instance holds when Buffer::new() is called, the Buffer
\* it returns has a cached device size and a device buffer of
\* max(size of T at its initial state, 4) bytes, needs_download false, the
\* initial layout state, and a fresh identity with an entry in the buffer
\* store.
C14_NewBufferSized ==
    LET X == BufferNew(World)
    IN /\ X.buffer_size = InitialDeviceSize
       /\ IdMapGet(X.buffers, X.id.val)
       /\ X.buffers.map[X.id.val].obj.size = InitialDeviceSize
       /\ ~X.needs_download
       /\ X.state = init
       /\ ~IdMapGet(buffers, X.id.val)

C14_Witness ==
    /\ running = NotRunning /\ pc = "idle"
    /\ World = [BufferNew(NewInstance) EXCEPT !.obs = obs]
    /\ buffer_size = 4 /\ Device(World).size = 4 /\ ~needs_download

\* n pushes one after the other.
RECURSIVE PushN(_, _)
PushN(W, n) == IF n = 0 THEN W ELSE push(PushN(W, n - 1), 0)

\* The smallest power of two that is at least n, and 0 for n = 0.
RECURSIVE Pow2AtLeast(_, _)
Pow2AtLeast(n, p) == IF n = 0 THEN 0 ELSE IF p >= n THEN p ELSE Pow2AtLeast(n, 2 * p)

\* The capacities the growth points of the first n pushes produce.
Capacities(n) == {PushN(BufferNew(NewInstance), k).state[2] : k \in 1..n}

\* C15: for every N up to the bound, N pushes on a new Buffer leave length N
\* and a capacity that is the smallest power of two >= N, the capacities
\* passed through being exactly the powers of two up to it; and in every
\* reachable state a push grows the capacity exactly when length equals
\* capacity, then writes the item at index length.
C15_PushDoublesCapacity ==
    /\ \A n \in 0..MaxGrow + 1 :
           LET X == PushN(BufferNew(NewInstance), n)
           IN /\ X.state = <<n, Pow2AtLeast(n, 1)>>
              /\ Capacities(n) = {Pow2AtLeast(k, 1) : k \in 1..n}
              /\ Len(X.value) = n
    /\ pc = "idle" =>
           LET X == push(World, 1)
           IN /\ X.state[1] = state[1] + 1
              /\ X.state[2] = IF state[1] # state[2] THEN state[2]
                              ELSE IF state[2] = 0 THEN 1 ELSE 2 * state[2]
              /\ X.value = Append(value, 1)
    /\ state[1] <= state[2]
    /\ state[2] = Pow2AtLeast(state[2], 1)

C15_Witness ==
    /\ pc = "idle" /\ state = <<MaxGrow, Pow2AtLeast(MaxGrow, 1)>>
    /\ state[1] < state[2]
    /\ Len(value) = MaxGrow

\* resize_buffer has to allocate a larger device buffer.
MustReallocate ==
    buffer_size < (IF size(state) < MinBufferSize THEN MinBufferSize ELSE size(state))

\* C16: when resize_buffer is called with needs_download true and a larger
\* device buffer is required, it returns, with needs_download false, the
\* shadow holding what the old device buffer held, and a new identity whose
\* device buffer is large enough.
C16_ResizeDownloadsFirst ==
    (pc = "idle" /\ needs_download /\ MustReallocate) =>
        LET X == Last(resize_buffer(World))
        IN /\ X.pc = "idle"
           /\ ~X.needs_download
           /\ X.id # id
           /\ X.buffers.map[X.id.val].obj.size >= size(state)
           /\ SubSeq(X.value, 1, Len(Device(World).data)) = Device(World).data

\* C17: when resize_buffer installs a new identity and the old one was held
\* by the Buffer alone, then on return the buffer store has the new
\* identity and no longer has the old one.
C17_ResizeReclaimsOld ==
    (pc = "idle" /\ ~needs_download /\ MustReallocate
                 /\ ref_count(arcs, id) = 1) =>
        LET X == Last(resize_buffer(World))
        IN /\ X.id # id
           /\ IdMapGet(X.buffers, X.id.val)
           /\ ~IdMapGet(X.buffers, id.val)

\* The Prepared step has returned in X with a device buffer large enough.
LargeEnough(X) ==
    /\ X.pc = "idle"
    /\ IdMapGet(X.buffers, X.id.val)
    /\ Device(X).size >= size(X.state)

\* C18: from every state between operations, a stale Buffer with items
\* pushed since the last device write included, the call of the bindings'
\* upload at the start of dispatch_multiple returns, and the device buffer
\* under the Buffer's identity then has at least the bytes the layout state
\* of the Buffer requires.  The step is taken either as prepare and read
\* on the binding or as Buffer::upload on it; the property asks for one of
\* the two to do what is claimed.
C18_PreparedDeviceLargeEnough ==
    pc = "idle" =>
        \/ LargeEnough(Last(BindingsUpload(World, shader)))
        \/ LargeEnough(Last(upload(World)))

\* A dispatch of the shader, which writes the buffer, with the builder's own
\* encoder, the pass storing v.
OwnedWriteDispatch(v) == Last(dispatch_multiple(World, shader, FALSE, v))

Downloads(t) == Cardinality({k \in DOMAIN t : t[k].pc = "dl_submitted"})

\* C20: after a dispatch on the builder's own encoder has marked the Buffer
\* written, the first deref downloads exactly once (when the Buffer has
\* items), and returns with needs_download false and the shadow equal to
\* the device copy; a second deref, and a deref_mut, in the state the first
\* returned in go through no download and change nothing.  A deref in any
\* state with needs_download false downloads nothing.
C20_FirstAccessDownloadsOnce ==
    /\ (pc = "idle" /\ "WRITE" \in shader.use) =>
           \A v \in Vals :
               LET X == OwnedWriteDispatch(v)
                   t == deref(X)
                   Y == Last(t)
               IN X.pc = "idle" =>
                     /\ X.needs_download
                     /\ Y.pc = "idle" /\ ~Y.needs_download
                     /\ Downloads(t) = IF size(X.state) > 0 THEN 1 ELSE 0
                     /\ size(X.state) > 0 =>
                            Y.value = SubSeq(Device(X).data, 1, Len(Y.value))
                     /\ deref(Y) = <<Y>>
                     /\ deref_mut(Y, 0, 0) = <<Y>>
    /\ (pc = "idle" /\ ~needs_download) => deref(World) = <<World>>

C20_Witness ==
    /\ Idle /\ obs = "deref"
    /\ ~needs_download /\ since = NoWrites
    /\ value # <<>> /\ value = SubSeq(Device(World).data, 1, Len(value))
    /\ \E i \in DOMAIN value : value[i] = 1

(***************************************************************************)
(* Properties of the dispatch: encoder modes, usages, the bind-group cache. *)
(***************************************************************************)
\* The world a dispatch has after its bindings.upload() step (compute.rs:83).
Prepared == Last(BindingsUpload(World, shader))

\* C21: in external-encoder mode (compute.rs:142-143) dispatch_multiple
\* records the pass in the caller's encoder and does nothing else to the
\* Buffer after its bindings.upload() step: the device buffers hold what they
\* held, no pass was submitted, needs_download was not set, the shadow was not
\* read back, and no staging buffer exists.
C21_ExternalRecordsOnly ==
    (pc = "idle") =>
        \A v \in Stores("WRITE" \in shader.use) :
            LET t == DispatchRest(Prepared, shader, TRUE, v)
                X == Last(t)
            IN (Prepared.pc = "idle" /\ X.pc = "idle") =>
                   /\ Len(t) = 1
                   /\ X.encoder = Append(Prepared.encoder,
                                         [buf |-> Prepared.id.val,
                                          write |-> "WRITE" \in shader.use])
                   /\ X.buffers = Prepared.buffers
                   /\ X.needs_download = Prepared.needs_download
                   /\ X.value = Prepared.value
                   /\ X.staging = Prepared.staging
                   /\ X.since.owned = Prepared.since.owned

\* A writing pass is recorded in the caller's encoder, not run, and the
\* Buffer is not marked.
C21_Witness ==
    /\ pc = "idle"
    /\ encoder # <<>>
    /\ Head(encoder).write
    /\ since.external
    /\ ~since.owned
    /\ ~needs_download
    /\ \A i \in DOMAIN Device(World).data : Device(World).data[i] = 0

\* C24: a dispatch whose binding set is () resolves no bind-group layout and
\* no bind group: in either encoder mode the bind-group-layout and bind-group
\* caches and stores (and the count of layouts created on the device) are
\* after the dispatch what they were before it, the Buffer and the buffer
\* store are untouched, and the recorded pass binds nothing.  With no other
\* dispatch in the program, those caches and stores stay empty.
C24_UnitDispatchResolvesNoGroups ==
    /\ (pc = "idle") =>
           \A external \in BOOLEAN :
               LET t == dispatch_unit(World, "unit", external)
                   X == Last(t)
               IN /\ Len(t) = 1
                  /\ X.pc = "idle"
                  /\ X.bgl = World.bgl
                  /\ X.bg = World.bg
                  /\ X.buffers = buffers
                  /\ X.value = value
                  /\ X.needs_download = needs_download
                  /\ external => Last(X.encoder).buf = NoId.val
                  /\ ~external => X.encoder = encoder
    /\ (\A p \in DOMAIN encoder : encoder[p].buf = NoId.val) =>
           /\ Count(bind_group_layout_descriptors) = 0
           /\ Count(bind_group_layouts.map) = 0
           /\ Count(bind_group_descriptors) = 0
           /\ Count(bind_groups.map) = 0
           /\ created = 0

\* A shader without bindings was dispatched (its pipeline exists), a pass of
\* it is recorded, and there is no bind-group layout and no bind group.
C24_Witness ==
    /\ pc = "idle"
    /\ Count(compute_pipelines.map) = 1
    /\ Count(pipeline_layouts.map) = 1
    /\ encoder # <<>>
    /\ Head(encoder).buf = NoId.val
    /\ Count(bind_group_layouts.map) = 0
    /\ Count(bind_groups.map) = 0

\* C22: with a shader that has no write usage on the Buffer, and
\* needs_download false: a store through deref_mut, then a dispatch in either
\* encoder mode, then a deref go through no state with needs_download true
\* and through no download, the dispatch does not panic, and the shadow the
\* deref returns is the shadow as the store left it.
C22_ReadOnlyDispatchKeepsClean ==
    (pc = "idle" /\ ~needs_download /\ "WRITE" \notin shader.use) =>
        \A i \in DOMAIN value, v \in Vals, external \in BOOLEAN :
            LET tw == deref_mut(World, i, v)
                Written == Last(tw)
                td == dispatch_multiple(Written, shader, external, 0)
                tr == deref(Last(td))
                all == tw \o td \o tr
            IN /\ Last(td).pc = "idle"
               /\ \A k \in DOMAIN all : ~all[k].needs_download
               /\ Downloads(all) = 0
               /\ Written.value[i] = v
               /\ Last(tr).value = Written.value
               /\ Last(tr).since = since

\* After a dispatch of the read-only shader the Buffer is clean and its
\* shadow, which holds a stored 1, is what the device holds.
C22_Witness ==
    /\ Idle
    /\ "WRITE" \notin shader.use
    /\ Count(bind_groups.map) >= 1
    /\ ~needs_download
    /\ \E i \in DOMAIN value : value[i] = 1
    /\ value = SubSeq(Device(World).data, 1, Len(value))

\* C23: two successive dispatches of the same shader on the same Buffer, in
\* any encoder modes, with nothing in between: the second resolves the same
\* bind-group descriptor (same layout identity, same buffer identity), and
\* leaves the bind-group descriptor cache and the bind-group store with the
\* entries they had after the first, and the same holds of the
\* bind-group-layout cache and store.
C23_SecondDispatchAddsNoBindGroup ==
    (pc = "idle") =>
        \A e1 \in BOOLEAN, e2 \in BOOLEAN :
        \A v1 \in Stores(~e1 /\ "WRITE" \in shader.use) :
        \A v2 \in Stores(~e2 /\ "WRITE" \in shader.use) :
            LET X == Last(dispatch_multiple(World, shader, e1, v1))
                Y == Last(dispatch_multiple(X, shader, e2, v2))
            IN (X.pc = "idle" /\ Y.pc = "idle") =>
                   /\ Y.id = X.id
                   /\ Y.bg.descs = X.bg.descs
                   /\ Y.bg.store = X.bg.store
                   /\ Count(Y.bg.descs) = Count(X.bg.descs)
                   /\ Count(Y.bg.store.map) = Count(X.bg.store.map)
                   /\ Y.bgl.descs = X.bgl.descs
                   /\ Y.bgl.store = X.bgl.store

\* A dispatch on the builder's encoder and one on the caller's have both
\* happened on a Buffer that was never reallocated, and there is one
\* bind-group descriptor and one bind group.
C23_Witness ==
    /\ Idle
    /\ since.owned
    /\ encoder # <<>>
    /\ buffers.next_id = 1
    /\ Count(bind_group_descriptors) = 1
    /\ Count(bind_groups.map) = 1

\* What resize_buffer does, called in the current state and returning: if
\* the required size max(T::size(state), 4) exceeds the cached device size,
\* the Buffer has a new identity, the cached size is the required size and
\* the store has a buffer of that size under the new identity; otherwise the
\* identity, the cached size and the buffer store are what they were.
ResizeReplacesIffLarger ==
    (pc = "idle") =>
        LET X == Last(resize_buffer(World))
            required == Max(size(state), MinBufferSize)
        IN X.pc = "idle" =>
               IF buffer_size < required
               THEN /\ X.id.val # id.val
                    /\ X.buffer_size = required
                    /\ IdMapGet(X.buffers, X.id.val)
                    /\ Device(X).size = required
               ELSE /\ X.id = id
                    /\ X.buffer_size = buffer_size
                    /\ X.buffers = buffers

\* C30: resize_buffer replaces the identity and the cached size exactly when
\* the required size exceeds the cached device size and changes neither, nor
\* the buffer store, otherwise; and no step of the program, pop included,
\* decreases the cached device size.
C30_ResizeOnlyGrows ==
    /\ []ResizeReplacesIffLarger
    /\ [][buffer_size' >= buffer_size]_vars

\* The Buffer was reallocated twice, up to 16 bytes, and items were popped
\* since: the layout needs 4 bytes and the cached device size is still 16.
C30_Witness ==
    /\ pc = "idle"
    /\ id.val = 2
    /\ buffer_size = 16
    /\ size(state) = ItemSize

(***************************************************************************)
(* Properties of degenerate layout sizes.                                  *)
(***************************************************************************)
\* C28 as stated: for a T whose layout size is below 4 bytes, download
\* called in any state between operations returns without aborting, and for
\* layout size 0 it goes through no device transfer.
C28_SmallSizesComplete ==
    (pc = "idle") =>
        \A sz \in 0 .. MinBufferSize - 1 :
            LET t == DownloadSized(World, sz)
            IN /\ Last(t).pc # "panic"
               /\ sz = 0 => Downloads(t) = 0

(***************************************************************************)
(* Properties of the Texture.                                              *)
(***************************************************************************)
\* The device texture the Texture names.
TexDevice(TS) == TS.map[texture.id].obj.data

\* index_mut, called in the current state for any texel and value, returns
\* with needs_upload true and needs_download false; the texel holds the
\* value stored, and every other texel holds what the device texture held if
\* a download was pending, and what the shadow held otherwise.
IndexMutMarksAfterDownload ==
    \A x \in DOMAIN texture.storage, v \in Vals :
        LET T == TexIndexMut(texture, textures, x, v)
            base == IF texture.needs_download THEN TexDevice(textures)
                    ELSE texture.storage
        IN /\ T.needs_upload
           /\ ~T.needs_download
           /\ T.storage = [base EXCEPT ![x] = v]

\* A dispatch, in either encoder mode, of a shader that reads the texture,
\* called with needs_upload true, writes the shadow to the device texture
\* before the pass and returns with needs_upload false.
ReadingDispatchUploads ==
    (texture.needs_upload /\ "READ" \in shader.use) =>
        \A external \in BOOLEAN :
            LET u == TexBindingsRead(texture, textures, shader)
                r == TexDispatch(World, texture, textures, shader, external, 0)
            IN /\ u.TS.map[texture.id].obj.data = texture.storage
               /\ ~r.T.needs_upload
               /\ r.T.storage = texture.storage
               /\ (external \/ "WRITE" \notin shader.use) =>
                      r.TS.map[texture.id].obj.data = texture.storage

\* C29: every index_mut completes a pending download and then sets
\* needs_upload, whatever the flags were; needs_upload then stays true until
\* a step that writes the shadow to the device texture, and the next
\* dispatch of a shader that reads the texture is such a step.
C29_IndexMutMarksUpload ==
    /\ [](IndexMutMarksAfterDownload /\ ReadingDispatchUploads)
    /\ [][(texture.needs_upload /\ ~texture'.needs_upload) =>
              (texture'.storage = texture.storage
               /\ \E v \in Vals :
                     TexDevice(textures') \in
                         {texture.storage, [x \in DOMAIN texture.storage |-> v]})]_vars

\* A pass has written 1 to every texel of the device texture; an index_mut
\* then completed the pending download and stored 0 in the first texel.
C29_Witness ==
    /\ shader.use = {"WRITE"}
    /\ texture.needs_upload
    /\ ~texture.needs_download
    /\ TexDevice(textures) = [x \in DOMAIN texture.storage |-> 1]
    /\ texture.storage = [TexDevice(textures) EXCEPT ![1] = 0]

\* C37 as stated: in no state of the Texture are needs_upload and
\* needs_download both true, and an upload called while needs_download is
\* true writes nothing to the device texture.
C37_TextureFlagsExclusive ==
    /\ ~(texture.needs_upload /\ texture.needs_download)
    /\ texture.needs_download =>
           TexUpload(texture, textures).TS = textures

(***************************************************************************)
(* Properties of the process-wide handle.                                  *)
(***************************************************************************)
\* Instance::initialize has completed at most once; the cell is complete
\* exactly if it has completed, and then holds the Instance that run made;
\* every call that has returned observed that Instance.
OneInstance ==
    /\ initialized <= 1
    /\ (GLOBAL_INSTANCE.state = "complete") <=> (initialized = 1)
    /\ GLOBAL_INSTANCE.value.handle = initialized
    /\ \A t \in Threads :
           calls[t].pc = "returned" =>
               /\ GLOBAL_INSTANCE.state = "complete"
               /\ calls[t].got = GLOBAL_INSTANCE.value.handle

\* C25: for any interleaving of calls of global() and init(desc) by the
\* threads, Instance::initialize completes at most once, and exactly once
\* when any call has returned; every returned call observed the one
\* Instance; and once the cell is complete no step, an init(desc) with
\* another descriptor included, changes it or runs initialize again.
C25_InitializedAtMostOnce ==
    /\ []OneInstance
    /\ [][GLOBAL_INSTANCE.state = "complete" =>
              /\ GLOBAL_INSTANCE' = GLOBAL_INSTANCE
              /\ initialized' = initialized
              /\ \A t \in Threads : calls'[t].pc # "initialize"]_vars

\* The Instance was made by global(); one thread has returned from it and
\* the other from an init with another descriptor, with the same handle.
C25_Witness ==
    /\ GLOBAL_INSTANCE.state = "complete"
    /\ GLOBAL_INSTANCE.value.desc = "default"
    /\ \E t \in Threads, u \in Threads :
           /\ t # u
           /\ calls[t].pc = "returned" /\ calls[t].fn = "global"
           /\ calls[u].pc = "returned" /\ calls[u].fn = "init"
           /\ calls[u].desc = "custom"
           /\ calls[t].got = 1 /\ calls[u].got = 1

(***************************************************************************)
(* Properties of the locking.                                              *)
(***************************************************************************)
\* Thread t is at a step it cannot take.
Waiting(t) == lk[t].todo # <<>> /\ ~CanTake(t, Head(lk[t].todo))

\* The threads that hold what thread t is waiting for.
Blockers(t) ==
    LET step == Head(lk[t].todo)
    IN IF step[1] = "write"
       THEN {u \in LockThreads : \E i \in DOMAIN lk[u].reads : lk[u].reads[i] = step[2]}
       ELSE {t}

\* A set of threads each of which waits for something only threads of the
\* set hold.
Deadlocked ==
    \E S \in SUBSET LockThreads :
        /\ S # {}
        /\ \A t \in S : Waiting(t) /\ Blockers(t) \subseteq S

\* C27: no deadlock: in no reachable state of threads running upload,
\* download, resize_buffer, clean() and dispatches on Buffers of their own
\* and the shared stores and caches is there a set of threads that wait for
\* guards held inside the set; and a thread that returns holds nothing.
C27_NoDeadlock ==
    /\ ~Deadlocked
    /\ \A t \in LockThreads :
           (lk[t].todo = <<>> /\ lk[t].parts = <<>>) =>
               (lk[t].reads = <<>> /\ ~lk[t].mutex)

\* One thread is inserting a new bind group while it holds a Ref of a
\* bind-group layout and waits for a second thread, in a dispatch, to drop
\* its Ref of a bind group; the second holds that Ref and is about to take a
\* Ref of a bind-group layout; a third is blocked reading back its Buffer.
C27_Witness ==
    \E t \in LockThreads, u \in LockThreads, w \in LockThreads :
        /\ Waiting(t)
        /\ Head(lk[t].todo) = <<"write", "bind_groups">>
        /\ lk[t].reads = <<"bind_group_layouts">>
        /\ lk[u].reads = <<"bind_groups">>
        /\ lk[u].todo # <<>>
        /\ Head(lk[u].todo) = <<"read", "bind_group_layouts">>
        /\ lk[w].todo # <<>>
        /\ Head(lk[w].todo) = <<"block">>
        /\ lk[w].mutex

\* The step thread t is about to take, <<"none">> if it is in no part.
NextStep(t) == IF lk[t].todo = <<>> THEN <<"none">> ELSE Head(lk[t].todo)

Binds(X, v) ==
    {d \in DOMAIN X.bg.descs : d.entries = <<[binding |-> 0, buffer |-> v]>>}

\* C31: a dispatch of a shader that reads the Buffer, called with the Buffer
\* clean: when bindings.upload() has returned (compute.rs:83) the shadow is
\* what it was, the Buffer's identity names a device buffer of the store that
\* is large enough and whose first bytes are the shadow's, also when the
\* upload replaced the identity; the bind group the dispatch then resolves
\* binds that identity and the pass is recorded on it; in owned-encoder mode
\* the pass is submitted on the device buffer holding the shadow, and only
\* the pass changes it.
C31_UploadBeforePass ==
    (pc = "idle" /\ ~needs_download /\ "READ" \in shader.use) =>
        \A external \in BOOLEAN :
        \A w \in Stores(~external /\ "WRITE" \in shader.use) :
            LET U == Prepared
                X == Last(DispatchRest(U, shader, external, w))
                pass == [buf |-> U.id.val, write |-> "WRITE" \in shader.use]
            IN (U.pc = "idle" /\ X.pc = "idle") =>
                  /\ U.value = value
                  /\ U.state = state
                  /\ IdMapGet(U.buffers, U.id.val)
                  /\ Device(U).size >= size(U.state)
                  /\ SubSeq(Device(U).data, 1, Cells(size(U.state))) = U.value
                  /\ X.id = U.id
                  /\ \E d \in Binds(X, U.id.val) :
                        IdMapGet(X.bg.store, X.bg.descs[d].val)
                  /\ external =>
                        /\ X.encoder = Append(U.encoder, pass)
                        /\ X.buffers = U.buffers
                  /\ ~external =>
                        /\ X.encoder = U.encoder
                        /\ DOMAIN X.buffers.map = DOMAIN U.buffers.map
                        /\ \A b \in DOMAIN U.buffers.map :
                              X.buffers.map[b].obj.data =
                                  IF pass.write /\ b = pass.buf
                                  THEN [i \in DOMAIN Device(U).data |-> w]
                                  ELSE U.buffers.map[b].obj.data

\* A reading dispatch has bound the identity the Buffer got from a
\* reallocation, and no other: the device buffer under it holds the shadow,
\* which has an item that is not 0.
C31_Witness ==
    /\ pc = "idle"
    /\ Idle
    /\ shader.use = {"READ"}
    /\ ~needs_download
    /\ id.val >= 1
    /\ Binds(World, id.val) # {}
    /\ Count(bind_group_descriptors) = 1
    /\ \E i \in DOMAIN value : value[i] = 1
    /\ SubSeq(Device(World).data, 1, Cells(size(state))) = value

\* Every bind group of X was created from the descriptor that resolves to it.
CreatedFromKey(X) ==
    \A d \in DOMAIN X.bg.descs :
        /\ IdMapGet(X.bg.store, X.bg.descs[d].val)
        /\ X.bg.store.map[X.bg.descs[d].val].obj = d

\* C32: a dispatch in either encoder mode, from any state between
\* operations: on return the bind-group cache has a descriptor with the
\* Buffer's current identity at binding 0, the pass was recorded on that
\* identity, and every cached bind group is the one created from its own
\* descriptor.  If that identity was in no cached descriptor before (as after
\* a reallocation, in this dispatch or before it), the dispatch missed the
\* cache: it created one bind group and added one descriptor; and an identity
\* the dispatch itself gave the Buffer was in no descriptor before.
C32_BindGroupCurrentIdentity ==
    (pc = "idle") =>
        \A external \in BOOLEAN :
        \A w \in Stores(~external /\ "WRITE" \in shader.use) :
            LET X == Last(dispatch_multiple(World, shader, external, w))
                fresh == Binds(World, X.id.val) = {}
            IN (X.pc = "idle") =>
                  /\ Binds(X, X.id.val) # {}
                  /\ CreatedFromKey(X)
                  /\ external => Last(X.encoder).buf = X.id.val
                  /\ X.id.val # id.val => fresh
                  /\ fresh =>
                        /\ X.bg.made = World.bg.made + 1
                        /\ Count(X.bg.descs) = Count(bind_group_descriptors) + 1
                        /\ Count(X.bg.store.map) = Count(bind_groups.map) + 1
                        /\ \A d \in Binds(X, X.id.val) :
                              X.bg.descs[d].val = bind_groups.next_id
                  /\ ~fresh =>
                        /\ X.bg.descs = bind_group_descriptors
                        /\ X.bg.store = bind_groups

\* The Buffer was dispatched on under its first identity and, reallocated,
\* under its second: there are two bind groups, one for each.
C32_Witness ==
    /\ pc = "idle"
    /\ Idle
    /\ id.val = 1
    /\ Binds(World, 0) # {}
    /\ Binds(World, 1) # {}
    /\ Count(bind_groups.map) = 2
    /\ CreatedFromKey(World)

(***************************************************************************)
(* Properties of the trailing array: growth, push and pop.                 *)
(***************************************************************************)
\* The capacity a growth of V asks for and its total byte extent, as
\* numbers: neither wraps.
Wanted(V) == IF V.state[2] = 0 THEN 1 ELSE 2 * V.state[2]

Extent(V, capacity) == V.T.head.size + capacity * V.T.item.size

\* The allocation of V is the one its capacity asks for, and it is
\* addressable.
Allocated(V) ==
    (V.pc = "ok" /\ V.T.item.size # 0) =>
        /\ Len(V.mem) = V.state[2]
        /\ Extent(V, V.state[2]) <= IsizeMax

\* C34: a push that finds the array full asks for capacity 1 or twice the
\* capacity.  If twice the capacity is beyond the machine word, or the head
\* size plus that many items is beyond isize::MAX bytes (and so every extent
\* beyond the address space), the push aborts and the layout state and the
\* allocation are what they were; if the push returns, the capacity is the
\* one asked for, not a wrapped one, the allocation has that many items and
\* its extent is at most isize::MAX.
C34_GrowthRejectsOverflow ==
    /\ []Allocated(vec)
    /\ [][(vec.pc = "ok" /\ vec'.op = "push" /\ vec.state[1] = vec.state[2]) =>
              /\ (Wanted(vec) > UsizeMax \/ Extent(vec, Wanted(vec)) > IsizeMax) =>
                    /\ vec'.pc = "abort"
                    /\ vec'.state = vec.state
                    /\ vec'.mem = vec.mem
              /\ vec'.pc = "ok" =>
                    /\ vec'.state = <<vec.state[1] + 1, Wanted(vec)>>
                    /\ Len(vec'.mem) = Wanted(vec)
                    /\ Extent(vec', Wanted(vec)) <= IsizeMax]_vars

\* A push on a full array of 4-byte items behind a 4-byte head was refused:
\* twice the capacity would need more than isize::MAX bytes.
C34_Witness ==
    /\ vec.pc = "abort"
    /\ vec.op = "push"
    /\ vec.T.item.size = 4
    /\ vec.T.head.size = 4
    /\ vec.state[1] = vec.state[2]
    /\ vec.state[2] > 0
    /\ Extent(vec, vec.state[2]) <= IsizeMax
    /\ Extent(vec, 2 * vec.state[2]) > IsizeMax

\* C35: in every state of a Buffer that push and pop have been called on in
\* any order, the length is at most the capacity.  A pop on length 0 returns
\* None and leaves the layout state as it is; a pop on a longer array
\* returns the item pushed last among those not yet popped (an item that was
\* written, never a cell growth left unwritten), takes 1 off the length and
\* leaves the capacity as it is.
C35_PushPopWithinCapacity ==
    /\ [](vec.pc # "none" => vec.state[1] <= vec.state[2])
    /\ [][(vec.pc = "ok" /\ vec'.op = "pop") =>
              IF vec.state[1] = 0
              THEN /\ vec'.ret = NoRet
                   /\ vec'.state = vec.state
              ELSE /\ vec'.ret = [some |-> TRUE, item |-> Last(vec.pushed)]
                   /\ vec'.ret.item \in Vals
                   /\ vec'.state = <<vec.state[1] - 1, vec.state[2]>>
                   /\ vec'.pushed = Front(vec.pushed)]_vars

\* A pop returned the 1 pushed last; the 0 pushed before it remains, in an
\* array that has grown to 2 items.
C35_Witness ==
    /\ vec.pc = "ok"
    /\ vec.op = "pop"
    /\ vec.ret = [some |-> TRUE, item |-> 1]
    /\ vec.pushed = <<0>>
    /\ vec.state = <<1, 2>>

(***************************************************************************)
(* Properties of the texel addresses.                                      *)
(***************************************************************************)
\* The row pitch of I: the least multiple of the row alignment that holds a
\* row of I.width texels.
Pitch(I) ==
    CHOOSE p \in {COPY_BYTES_PER_ROW_ALIGNMENT * k : k \in 1 .. I.width * I.texel} :
        /\ p >= I.width * I.texel
        /\ p - COPY_BYTES_PER_ROW_ALIGNMENT < I.width * I.texel

InExtent(I, s) == s.x < I.width /\ s.y < I.height

\* C33: the shadow of a texture of width W, height H and texel size S is
\* P * H bytes for the row pitch P.  A store to (x, y) with x < W and y < H
\* is to the S bytes from y * P + x * S, which are inside the allocation and
\* inside the first W * S bytes of their row, and two stores to different
\* texels are to disjoint bytes; an index with x >= W or y >= H is refused
\* and addresses nothing.
C33_TexelAddresses ==
    (image.pc # "none") =>
        LET P == Pitch(image)
            S == image.texel
        IN /\ image.size = P * image.height
           /\ \A s \in image.stores :
                 IF InExtent(image, s)
                 THEN /\ s.at = s.y * P + s.x * S
                      /\ s.at >= 0
                      /\ s.at + S <= image.size
                      /\ (s.at % P) + S <= image.width * S
                 ELSE /\ s.at = -1
                      /\ image.pc = "abort"
           /\ \A s \in image.stores, t \in image.stores :
                 (InExtent(image, s) /\ InExtent(image, t) /\ s # t) =>
                     (s.at + S <= t.at \/ t.at + S <= s.at)
           /\ image.pc = "abort" => \E s \in image.stores : ~InExtent(image, s)

\* Stores to the last texel of the first row and to the first texel of the
\* second row of a texture 17 texels of 16 bytes wide: the row pitch is 512
\* bytes, of which the last 240 are padding.
C33_Witness ==
    /\ image.pc = "ok"
    /\ image.width = 17
    /\ image.texel = 16
    /\ image.height = 2
    /\ image.stores = {[x |-> 16, y |-> 0, at |-> 256],
                       [x |-> 0, y |-> 1, at |-> 512]}

(***************************************************************************)
(* Properties of the sizes of the device copies.                           *)
(***************************************************************************)
\* C36 as stated: in every state between operations in which a download
\* would copy (the Buffer is stale and its layout size is at least 4 bytes),
\* the bytes it copies, T::size(state), are at most the bytes of the device
\* buffer under the current identity, and the download returns.
C36_DownloadCopyWithinDevice ==
    (pc = "idle" /\ Idle /\ needs_download /\ size(state) >= MinBufferSize) =>
        /\ IdMapGet(buffers, id.val)
        /\ size(state) <= Device(World).size
        /\ Last(download(World)).pc = "idle"

\* C40 as stated: an identity of the buffer store that the Buffer no longer
\* holds, having been given a new one by a reallocation, is evicted by a
\* clean() of the buffer store, whether or not a dispatch bound it before.
C40_SupersededReclaimable ==
    (pc = "idle" /\ Idle) =>
        \A v \in DOMAIN buffers.map :
            (v # id.val) => ~IdMapGet(cleanMap(buffers, arcs), v)

(***************************************************************************)
(* Properties of the Buffer synchronisation protocol.                      *)
(***************************************************************************)
\* What the device copy holds where the shadow has cells.
DeviceCopy == SubSeq(Device(World).data, 1, Len(value))

\* The shadow and the device copy differ in a cell both have.
Differ == \E i \in DOMAIN value \cap DOMAIN Device(World).data :
              value[i] # Device(World).data[i]

\* The positions inside Buffer::download before the copy into the shadow has
\* finished: staging buffer created, copy submitted and waiting for the
\* mapping, mapped and copying into the shadow.
BeforeCopied == {"dl_staging", "dl_submitted", "dl_mapped"}

\* C1: in every state where needs_download is true, upload() returns in a
\* state with the same device buffers and contents, the same device identity
\* and the same cached device size, and with needs_download still true.
C1_UploadNoOpWhenStale ==
    (Idle /\ needs_download) =>
        LET X == Last(upload(World))
        IN /\ X.buffers = buffers
           /\ X.id = id
           /\ X.buffer_size = buffer_size
           /\ X.needs_download
           /\ X.pc = "idle"

C1_Witness ==
    /\ Idle /\ obs = "upload" /\ needs_download
    /\ Differ

\* C2 as stated: between operations, if a dispatch that writes the buffer has
\* been recorded, in either encoder mode, since the last completed download,
\* then needs_download is true.
C2_WriteDispatchSetsFlag ==
    (Idle /\ (since.owned \/ since.external)) => needs_download

\* C2 amended: between operations, if a dispatch that writes the buffer has
\* been recorded and submitted through the builder's own encoder since the
\* last completed download, then needs_download is true, and upload() leaves
\* the device buffers as they are.
C2_OwnedWriteDispatchSetsFlag ==
    (Idle /\ since.owned) =>
        /\ needs_download
        /\ Last(upload(World)).buffers = buffers

C2_Witness ==
    /\ Idle /\ since.owned /\ ~since.external /\ needs_download
    /\ Differ

C4_StaleReadsDownloadFirst ==
    (Idle /\ needs_download) =>
        /\ LET X == Last(deref(World))
           IN X.pc = "idle" => ~X.needs_download /\ X.value = DeviceCopy
        /\ LET X == Last(deref_mut(World, 0, 0))
           IN X.pc = "idle" => ~X.needs_download /\ X.value = DeviceCopy
        /\ LET r == pop(World)
           IN r.some =>
                 /\ ~r.W.needs_download
                 /\ Len(value) \in DOMAIN Device(World).data =>
                        r.item = <<Device(World).data[Len(value)]>>

====
